---- MODULE Spec2Model ----
(***************************************************************************)
(* Storage engine of NLBackend: one collection ("tasks") with its          *)
(* per-collection lock, write-ahead log, record files, in-memory field     *)
(* index and persisted index snapshot.  Writers run Collection.create /    *)
(* update / delete one await at a time; a reader runs Collection.read and  *)
(* Collection.list.                                                        *)
(***************************************************************************)
EXTENDS Integers, Sequences, FiniteSets, TLC

\* ---------------------------------------------------------------- bounds
MaxIds == 2          \* record ids crypto.randomUUID() may hand out
MaxClock == 1        \* last value of the wall clock (Date.now())
MaxOps == 2          \* operations callers invoke in one run
MaxSteps == 2        \* steps of a workflow
MaxComps == 2        \* compensations a workflow declares
MaxSubSteps == 2     \* sub-steps of a parallel step or a decision branch
MaxRuleSets == 2     \* rule sets of a project
MaxRules == 2        \* rules of a rule set
MaxConds == 2        \* conditions of a rule
MaxPlanSteps == 2    \* steps of an execution plan
MaxInits == 2        \* calls of DatabaseEngine.init on one engine
MaxPath == 2         \* segments of a "context." reference after the variable
MaxAcquires == 2     \* acquire calls a lock holder has made when the run starts
MaxRetries == 2      \* largest maxRetries of an error policy
MaxPolicies == 2     \* error policies of an integration

\* lock.ts DEFAULT_TIMEOUT_MS, in units of the model clock (one tick of the
\* clock is one timeout period)
DEFAULT_TIMEOUT_MS == 1

\* ------------------------------------------------------------ value space
ABSENT == "<undefined>"     \* JS undefined / key not present
NULL == "<null>"            \* JS null
NOFILTER == "<nofilter>"    \* field not named in a filter set
NoOwner == "<free>"         \* no entry in CollectionLock.locks

Writers == {"w1", "w2"}
FirstWriter == "w1"
Ids == 1..MaxIds
CollectionName == "tasks"

SystemFields == {"_id", "_created_at", "_updated_at", "_version"}
UserFields == {"email", "priority", "owner"}   \* declared by the schema
RemovedFields == {"nickname"}                  \* declared by an earlier schema only
AllFields == SystemFields \cup UserFields \cup RemovedFields

\* The compiled schema of the collection: email is unique, priority is an
\* enum (hence indexed) with a default, owner is immutable.
SchemaFields ==
  { [name |-> "email", type |-> "string", unique |-> TRUE, indexed |-> FALSE,
     immutable |-> FALSE, default |-> ABSENT],
    [name |-> "priority", type |-> "enum", unique |-> FALSE, indexed |-> FALSE,
     immutable |-> FALSE, default |-> "low"],
    [name |-> "owner", type |-> "string", unique |-> FALSE, indexed |-> FALSE,
     immutable |-> TRUE, default |-> ABSENT] }

FieldDef(f) == CHOOSE d \in SchemaFields : d.name = f

shouldIndex(field) ==
  field.indexed \/ field.type = "reference" \/ field.type = "enum"
    \/ field.type = "boolean"

getIndexableFields == { d.name : d \in { x \in SchemaFields : shouldIndex(x) } }

\* String(value) as used for index keys
Str(v) == IF v = NULL THEN "null" ELSE IF v = ABSENT THEN "undefined" ELSE v

UserValues == {"a", "b", "high", "low", "null", NULL, ABSENT}
Keys == { Str(v) : v \in UserValues }

\* Payloads handed to create / update.  A user key the payload omits is
\* held as ABSENT; a system key is in the domain only when the payload
\* carries it.
Payloads ==
  { [email |-> "a", priority |-> "high", owner |-> "a",
     _id |-> 9, _created_at |-> 9, _updated_at |-> 9, _version |-> 9],
    [email |-> "b", priority |-> ABSENT, owner |-> "b"],
    [email |-> ABSENT, priority |-> NULL, owner |-> ABSENT] }

\* key in data
has(data, key) ==
  /\ key \in DOMAIN data
  /\ key \in SystemFields \/ data[key] # ABSENT

NoRec == [f \in AllFields |-> IF f \in {"_id", "_created_at", "_updated_at", "_version"} THEN 0 ELSE ABSENT]

\* A record written under the earlier schema, which declared "nickname" and
\* neither "priority" nor "owner".
LegacyRecord ==
  [f \in AllFields |->
     CASE f = "_id" -> 1
       [] f = "_created_at" -> 0
       [] f = "_updated_at" -> 0
       [] f = "_version" -> 1
       [] f = "email" -> "b"
       [] f = "nickname" -> "a"
       [] OTHER -> ABSENT]

\* A record written under the current schema.
SecondRecord ==
  [f \in AllFields |->
     CASE f = "_id" -> 2
       [] f = "_created_at" -> 0
       [] f = "_updated_at" -> 0
       [] f = "_version" -> 1
       [] f = "email" -> "a"
       [] f = "priority" -> "high"
       [] f = "owner" -> "b"
       [] OTHER -> ABSENT]

\* ------------------------------------------------------------- sequences
RECURSIVE SetToSeq(_)
SetToSeq(S) ==
  IF S = {} THEN <<>>
  ELSE LET m == CHOOSE x \in S : \A y \in S : x <= y
       IN <<m>> \o SetToSeq(S \ {m})

SeqToSet(s) == { s[i] : i \in 1..Len(s) }

SeqFilter(s, x) == SelectSeq(s, LAMBDA e : e # x)

\* ------------------------------------------------------------ Collection

\* Collection.buildRecord: system fields, then per schema field the payload
\* value or the declared default (the schema declares no auto field); no
\* other key of the payload is looked at.
buildRecord(data, id, ts) ==
  [f \in AllFields |->
     CASE f = "_id" -> id
       [] f = "_created_at" -> ts
       [] f = "_updated_at" -> ts
       [] f = "_version" -> 1
       [] f \in UserFields ->
            IF has(data, f) THEN data[f]
            ELSE FieldDef(f).default
       [] OTHER -> ABSENT]

nextVersion_unchanged(old) == old["_version"]

\* the _version an update writes
nextVersion(old) == old["_version"] + 1

\* the names of the schema fields flagged immutable
immutableFields == { d.name : d \in { x \in SchemaFields : x.immutable } }

\* key.startsWith("_")
isSystemKey(key) == key \in SystemFields

applyUpdate_merged(old, data, ts) ==
  [f \in AllFields |->
     IF has(data, f) THEN data[f]
     ELSE IF f = "_updated_at" THEN ts
     ELSE IF f = "_version" THEN nextVersion(old)
     ELSE old[f]]

\* Collection.applyUpdate: payload keys over the existing record, except
\* immutable and "_"-prefixed keys; _updated_at and _version by the engine.
applyUpdate(old, data, ts) ==
  [f \in AllFields |->
     CASE f = "_updated_at" -> ts
       [] f = "_version" -> nextVersion(old)
       [] OTHER ->
            IF has(data, f) /\ f \notin immutableFields /\ ~isSystemKey(f) THEN data[f]
            ELSE old[f]]

\* Collection.applySchemaEvolution: a declared field absent from the record
\* is synthesized as default ?? null.
applySchemaEvolution(r) ==
  [f \in AllFields |->
     IF f \in UserFields /\ r[f] = ABSENT
     THEN (IF FieldDef(f).default # ABSENT THEN FieldDef(f).default ELSE NULL)
     ELSE r[f]]

\* Collection.getAllRecords without a concurrent directory change: every
\* record file, schema-evolved, in directory order.
RECURSIVE getAllRecordsOf(_, _)
getAllRecordsOf(d, ids) ==
  IF ids = <<>> THEN <<>>
  ELSE <<applySchemaEvolution(d[Head(ids)])>> \o getAllRecordsOf(d, Tail(ids))

getAllRecords(d) == getAllRecordsOf(d, SetToSeq(DOMAIN d))

enforceUniqueness_createOnly(rec, excludeId, d) ==
  IF excludeId # 0 THEN {}
  ELSE { fd.name : fd \in
           { x \in SchemaFields :
               /\ x.unique
               /\ rec[x.name] # ABSENT
               /\ rec[x.name] # NULL
               /\ \E i \in DOMAIN d : applySchemaEvolution(d[i])[x.name] = rec[x.name] } }

enforceUniqueness_updateOnly(rec, excludeId, d) ==
  IF excludeId = 0 THEN {}
  ELSE { fd.name : fd \in
           { x \in SchemaFields :
               /\ x.unique
               /\ rec[x.name] # ABSENT
               /\ rec[x.name] # NULL
               /\ \E i \in DOMAIN d :
                    /\ applySchemaEvolution(d[i])[x.name] = rec[x.name]
                    /\ i # excludeId } }

\* Collection.enforceUniqueness: the unique fields of the schema on which the
\* record collides with another record (empty: the check passes).
enforceUniqueness(rec, excludeId, d) ==
  LET allRecords == getAllRecords(d)
  IN { fd.name : fd \in
         { x \in SchemaFields :
             /\ x.unique
             /\ rec[x.name] # ABSENT
             /\ rec[x.name] # NULL
             /\ \E i \in 1..Len(allRecords) :
                  /\ allRecords[i][x.name] = rec[x.name]
                  /\ allRecords[i]["_id"] # excludeId } }

\* ---------------------------------------------------------- WriteAheadLog

WalFileName(ts, operation, collection, recordId) ==
  <<ts, operation, collection, recordId>>

WalLog_notWritten(w, operation, collection, recordId, previousState, newState, ts) == w

WalLog_noPreImage(w, operation, collection, recordId, previousState, newState, ts) ==
  LET fn == WalFileName(ts, operation, collection, recordId)
      entry == [operation |-> operation, collection |-> collection,
                record_id |-> recordId, previous_state |-> newState,
                new_state |-> newState, timestamp |-> ts]
  IN [f \in (DOMAIN w) \cup {fn} |-> IF f = fn THEN entry ELSE w[f]]

\* WriteAheadLog.log: writeFile under the name built from timestamp,
\* operation, collection and record id (an existing file is replaced).
WalLog(w, operation, collection, recordId, previousState, newState, ts) ==
  LET fn == WalFileName(ts, operation, collection, recordId)
      entry == [operation |-> operation, collection |-> collection,
                record_id |-> recordId, previous_state |-> previousState,
                new_state |-> newState, timestamp |-> ts]
  IN [f \in (DOMAIN w) \cup {fn} |-> IF f = fn THEN entry ELSE w[f]]

\* position of an operation name in the string order of the file names
\* ("create" < "delete" < "update")
OperationRank(operation) ==
  CASE operation = "create" -> 1
    [] operation = "delete" -> 2
    [] OTHER -> 3

\* Array.prototype.sort on the file names: the timestamp prefix has a fixed
\* width, so names compare by timestamp, then operation, then record id
\* (one collection)
FileNameBefore(a, b) ==
  \/ a[1] < b[1]
  \/ a[1] = b[1] /\ OperationRank(a[2]) < OperationRank(b[2])
  \/ a[1] = b[1] /\ a[2] = b[2] /\ a[4] < b[4]

RECURSIVE sortFileNames(_)
sortFileNames(files) ==
  IF files = {} THEN <<>>
  ELSE LET first == CHOOSE x \in files : \A y \in files \ {x} : FileNameBefore(x, y)
       IN <<first>> \o sortFileNames(files \ {first})

\* WriteAheadLog.readAll: the entries of the files of the log directory, in
\* sorted file name order
readAll(w) ==
  LET jsonFiles == sortFileNames(DOMAIN w)
  IN [n \in 1..Len(jsonFiles) |-> w[jsonFiles[n]]]

\* ---------------------------------------------------------- CollectionLock

acquireGrants_always(l, collection, ownerId) == TRUE

acquireGrants_noReentry(l, collection, ownerId) == l[collection] = NoOwner

acquireGrants_global(l, collection, ownerId) ==
  \A c \in DOMAIN l : l[c] = NoOwner \/ l[c] = ownerId

\* CollectionLock.acquire, one poll: granted when no entry exists or the
\* entry is the caller's own.
acquireGrants(l, collection, ownerId) ==
  l[collection] = NoOwner \/ l[collection] = ownerId

release_silent(l, collection, ownerId) ==
  [locks |-> IF l[collection] = ownerId THEN [l EXCEPT ![collection] = NoOwner] ELSE l,
   threw |-> FALSE]

release_never(l, collection, ownerId) == [locks |-> l, threw |-> FALSE]

release_anyOwner(l, collection, ownerId) ==
  [locks |-> [l EXCEPT ![collection] = NoOwner], threw |-> FALSE]

\* CollectionLock.release: no-op when not held, throws for a non-owner.
release(l, collection, ownerId) ==
  IF l[collection] = NoOwner THEN [locks |-> l, threw |-> FALSE]
  ELSE IF l[collection] # ownerId THEN [locks |-> l, threw |-> TRUE]
  ELSE [locks |-> [l EXCEPT ![collection] = NoOwner], threw |-> FALSE]

\* ------------------------------------------------------------ IndexManager

EmptyFieldIndex == [k \in Keys |-> <<>>]

indexable(v) == v # ABSENT /\ v # NULL

onRecordCreated(idx, r) ==
  [f \in DOMAIN idx |->
     IF indexable(r[f])
     THEN [idx[f] EXCEPT ![Str(r[f])] = Append(@, r["_id"])]
     ELSE idx[f]]

removeEntry(fieldIndex, v, id) ==
  IF indexable(v)
  THEN [fieldIndex EXCEPT ![Str(v)] = SeqFilter(@, id)]
  ELSE fieldIndex

addEntry(fieldIndex, v, id) ==
  IF indexable(v)
  THEN [fieldIndex EXCEPT ![Str(v)] = Append(@, id)]
  ELSE fieldIndex

onRecordUpdated(idx, oldRecord, newRecord) ==
  [f \in DOMAIN idx |->
     addEntry(removeEntry(idx[f], oldRecord[f], oldRecord["_id"]),
              newRecord[f], newRecord["_id"])]

onRecordDeleted(idx, r) ==
  [f \in DOMAIN idx |-> removeEntry(idx[f], r[f], r["_id"])]

\* full rebuild of IndexManager.buildForCollection: raw record files, no
\* schema evolution
RECURSIVE scanInto(_, _, _)
scanInto(idx, d, ids) ==
  IF ids = <<>> THEN idx
  ELSE scanInto(onRecordCreated(idx, d[Head(ids)]), d, Tail(ids))

fullRebuild(d) ==
  scanInto([f \in getIndexableFields |-> EmptyFieldIndex], d, SetToSeq(DOMAIN d))

NoSnapshot == [exists |-> FALSE, count |-> 0, indexes |-> [f \in {} |-> EmptyFieldIndex]]

\* IndexManager.buildForCollection: the persisted snapshot when its count
\* equals the number of record files, else the full rebuild.
buildForCollection(snap, d) ==
  IF getIndexableFields = {}
  THEN [indexes |-> [f \in {} |-> EmptyFieldIndex], counts |-> 0]
  ELSE IF snap.exists /\ Cardinality(DOMAIN d) = snap.count
       THEN [indexes |-> snap.indexes, counts |-> snap.count]
       ELSE [indexes |-> fullRebuild(d), counts |-> Cardinality(DOMAIN d)]

\* IndexManager.lookup: null (indexed = FALSE) for a field without index
lookup(idx, field, value) ==
  IF field \notin DOMAIN idx THEN [indexed |-> FALSE, ids |-> <<>>]
  ELSE [indexed |-> TRUE, ids |-> idx[field][Str(value)]]

\* IndexManager.persist
persist(idx, cnt) == [exists |-> TRUE, count |-> cnt, indexes |-> idx]

\* --------------------------------------------------------- Collection.list

\* Filter sets of a query: per user field the value asked for, or NOFILTER.
NoFilters == [f \in UserFields |-> NOFILTER]

FilterSets ==
  { [NoFilters EXCEPT !["priority"] = "high"],
    [NoFilters EXCEPT !["priority"] = "low"],
    [NoFilters EXCEPT !["priority"] = NULL],
    [NoFilters EXCEPT !["email"] = "b"],
    [NoFilters EXCEPT !["email"] = "a", !["priority"] = "high"] }

\* Object.entries(filters) order
FilterOrder == <<"email", "priority">>

\* Collection.linearFilter: exact match on every filter
linearFilter(records, filters) ==
  SelectSeq(records,
            LAMBDA r : \A f \in UserFields : filters[f] # NOFILTER => r[f] = filters[f])

\* Collection.applyFilters: the first filter whose field has an index narrows
\* the candidates through lookup, the remaining filters are applied by
\* linearFilter; without an indexed filter everything is linearFilter.
applyFilters(records, filters, idx) ==
  LET served == { n \in 1..Len(FilterOrder) :
                    /\ filters[FilterOrder[n]] # NOFILTER
                    /\ lookup(idx, FilterOrder[n], filters[FilterOrder[n]]).indexed }
  IN IF served = {} THEN linearFilter(records, filters)
     ELSE LET n == CHOOSE x \in served : \A y \in served : x <= y
              field == FilterOrder[n]
              idSet == SeqToSet(lookup(idx, field, filters[field]).ids)
              narrowed == SelectSeq(records, LAMBDA r : r["_id"] \in idSet)
              remaining == [filters EXCEPT ![field] = NOFILTER]
          IN IF remaining = NoFilters THEN narrowed
             ELSE linearFilter(narrowed, remaining)

\* ------------------------------------------------------- workflow executor

\* the collections DatabaseEngine.init has registered
Collections == {CollectionName}

\* DatabaseEngine.requireCollection: throws for a name it does not know
requireCollection(name) == name \in Collections

NoData == [f \in UserFields |-> ABSENT]

\* A WorkflowStep: type and the entries of config the executor reads
\* (condition of validate / decision as its truthiness; steps of parallel;
\* ifTrue / ifFalse of decision, present or not).  step.index is the position
\* of the step in workflow.steps (1-based).
NoBranch == [present |-> FALSE, steps |-> <<>>]
NoStep ==
  [type |-> "none", condition |-> FALSE, collection |-> "", operation |-> "",
   id |-> 0, data |-> NoData, steps |-> <<>>, ifTrue |-> NoBranch, ifFalse |-> NoBranch]

ValidateStep(condition) == [NoStep EXCEPT !.type = "validate", !.condition = condition]
DbReadStep(collection) == [NoStep EXCEPT !.type = "db_read", !.collection = collection]
DbWriteStep(collection, operation, id, data) ==
  [NoStep EXCEPT !.type = "db_write", !.collection = collection,
                 !.operation = operation, !.id = id, !.data = data]
DbDeleteStep(collection, id) ==
  [NoStep EXCEPT !.type = "db_delete", !.collection = collection, !.id = id]
OtherStep(type) == [NoStep EXCEPT !.type = type]
ParallelStep(steps) == [NoStep EXCEPT !.type = "parallel", !.steps = steps]
DecisionStep(condition, ifTrue, ifFalse) ==
  [NoStep EXCEPT !.type = "decision", !.condition = condition,
                 !.ifTrue = ifTrue, !.ifFalse = ifFalse]

\* steps without sub-steps that workflows are built from
LeafSteps ==
  { ValidateStep(TRUE), ValidateStep(FALSE),
    DbReadStep(CollectionName), DbReadStep("nope"),
    DbWriteStep(CollectionName, "create", 0, [email |-> "a", priority |-> "high"]),
    DbWriteStep(CollectionName, "create", 0, [email |-> "b", priority |-> ABSENT]),
    DbWriteStep(CollectionName, "update", 1, [email |-> ABSENT, priority |-> NULL]),
    DbDeleteStep(CollectionName, 1),
    OtherStep("call_action") }

\* sub-steps of parallel and decision steps
SubSteps ==
  { ValidateStep(FALSE), OtherStep("call_action"),
    DbWriteStep(CollectionName, "create", 0, [email |-> "a", priority |-> "high"]),
    DbWriteStep(CollectionName, "create", 0, [email |-> "b", priority |-> ABSENT]) }

\* the step reaches Collection.create / update / delete
IsDbOp(step) ==
  /\ step.type \in {"db_write", "db_delete"}
  /\ requireCollection(step.collection)

DbOps(steps) == { j \in 1..Len(steps) : IsDbOp(steps[j]) }

SeqsUpTo(S, n) == UNION { [1..k -> S] : k \in 0..n }

\* sub-step lists: at most one storage write per caller slot
SubStepLists ==
  { s \in SeqsUpTo(SubSteps, MaxSubSteps) : Cardinality(DbOps(s)) <= Cardinality(Writers) }

WorkflowSteps ==
  LeafSteps
  \cup { ParallelStep(s) : s \in SubStepLists }
  \cup { DecisionStep(c, [present |-> TRUE, steps |-> s], NoBranch) : c \in BOOLEAN, s \in SubStepLists }
  \cup { DecisionStep(FALSE, NoBranch, [present |-> TRUE, steps |-> s]) : s \in SubStepLists }

\* WorkflowCompensation.forStep: a step index (1-based) or "*", written 0
CatchAll == 0
ForStepValues == (1..MaxSteps) \cup {CatchAll}

\* compensation lists; the action text of an entry is told apart by the
\* position at which the entry is declared
CompensationLists ==
  { [i \in 1..Len(f) |-> [forStep |-> f[i], action |-> i]] :
      f \in SeqsUpTo(ForStepValues, MaxComps) }

\* what a step that settles without reaching the storage engine does:
\* value returned or error thrown
Outcome(ok, error, by) == [ok |-> ok, error |-> error, by |-> by]
Pending(w) == Outcome(TRUE, "", w)
SyncOutcome(step) ==
  IF step.type = "validate"
  THEN IF step.condition THEN Outcome(TRUE, "", "") ELSE Outcome(FALSE, "Validation failed", "")
  ELSE IF step.type \in {"db_read", "db_write", "db_delete"}
       THEN IF requireCollection(step.collection) THEN Outcome(TRUE, "", "")
            ELSE Outcome(FALSE, "Collection not found", "")
       ELSE Outcome(TRUE, "", "")

\* the operation a db_write / db_delete step hands to the storage engine
DbKind(step) ==
  IF step.type = "db_delete" THEN "delete"
  ELSE IF step.operation = "update" /\ step.id # 0 THEN "update"
  ELSE "create"

\* what the storage operation of writer w settled with
StorageOutcome(r) ==
  IF r.kind = "error" THEN Outcome(FALSE, r.code, "") ELSE Outcome(TRUE, "", "")

runCompensations_all(compensations, failedStep) ==
  [i \in 1..Len(compensations) |->
     [forStep |-> compensations[i].forStep, success |-> TRUE,
      action |-> compensations[i].action]]

\* runCompensations: the entries for the failed step or "*", in declaration
\* order, each logged and reported as run
runCompensations(compensations, failedStep) ==
  LET applicable == SelectSeq(compensations,
                      LAMBDA c : c.forStep = failedStep \/ c.forStep = CatchAll)
  IN [i \in 1..Len(applicable) |->
        [forStep |-> applicable[i].forStep, success |-> TRUE,
         action |-> applicable[i].action]]

\* ------------------------------------------------------------ rule engine

\* Priority order for rule categories
CATEGORY_PRIORITY == <<"permissions", "validation", "rate-limits", "custom">>

\* Array.prototype.indexOf (0-based, -1 when absent)
indexOf(array, x) ==
  IF \E i \in 1..Len(array) : array[i] = x
  THEN (CHOOSE i \in 1..Len(array) : array[i] = x /\ \A j \in 1..(i - 1) : array[j] # x) - 1
  ELSE -1

\* categories rule sets carry: those of RuleCategory, and one the compiler
\* passed through from the compiled JSON that is none of them
Categories == {"permissions", "validation", "rate-limits", "custom", "audit"}

SortKey_declared(category) == 0

\* the key evaluateRules sorts a rule set by: aIdx === -1 ? 99 : aIdx
SortKey(category) ==
  IF indexOf(CATEGORY_PRIORITY, category) = -1 THEN 99
  ELSE indexOf(CATEGORY_PRIORITY, category)

\* Array.prototype.sort over Array.from(ruleSets.values()): the positions of
\* the rule sets (Map insertion order) in sorted order; the sort is stable
sortRuleSets(sets) ==
  CHOOSE order \in [1..Len(sets) -> 1..Len(sets)] :
    \A i, j \in 1..Len(sets) :
      i < j => \/ SortKey(sets[order[i]]) < SortKey(sets[order[j]])
               \/ /\ SortKey(sets[order[i]]) = SortKey(sets[order[j]])
                  /\ order[i] < order[j]

\* tool names and appliesTo patterns, as the text before and after the first
\* "_" of "<collection>_<verb>"; a pattern is "*", a tool name, or a prefix
\* followed by "*"
ToolName == <<"tasks_", "create">>
Patterns == { <<"*">>, <<"tasks_", "create">>, <<"tasks_", "*">>, <<"users_", "*">> }
AppliesTo == SUBSET Patterns

\* String.prototype.startsWith on the segments of a name
startsWith(name, prefix) ==
  /\ Len(prefix) <= Len(name)
  /\ \A i \in 1..Len(prefix) : name[i] = prefix[i]

\* ruleApplies: "*" is listed, or some pattern equals the tool name or is a
\* prefix pattern the tool name starts with
ruleApplies(appliesTo, toolName) ==
  IF <<"*">> \in appliesTo THEN TRUE
  ELSE \E pattern \in appliesTo :
         \/ pattern = toolName
         \/ /\ pattern[Len(pattern)] = "*"
            /\ startsWith(toolName, SubSeq(pattern, 1, Len(pattern) - 1))

\* RuleContext: input and user (NoUser: null)
NoUser == [id |-> "", role |-> ""]
Users == {NoUser, [id |-> "u1", role |-> "admin"]}

\* RuleCondition: type and the entries of config evaluateCondition reads
RuleConditions ==
  { [type |-> "role_is", role |-> "admin", field |-> "", collection |-> ""],
    [type |-> "field_exists", role |-> "", field |-> "email", collection |-> ""],
    [type |-> "field_unique_in", role |-> "", field |-> "email", collection |-> CollectionName],
    [type |-> "field_unique_in", role |-> "", field |-> "email", collection |-> "nope"],
    [type |-> "custom", role |-> "", field |-> "", collection |-> ""] }

\* DatabaseEngine.list: requireCollection, then Collection.list with filters
\* on a quiet collection; threw is the error of an unknown collection
dbList(collection, filters, d, idx) ==
  IF requireCollection(collection)
  THEN [threw |-> FALSE, data |-> applyFilters(getAllRecords(d), filters, idx)]
  ELSE [threw |-> TRUE, data |-> <<>>]

\* evaluateCondition: "true", "false", or "throw" when the promise rejects
evaluateCondition(condition, context, d, idx) ==
  IF condition.type = "role_is"
  THEN IF context.user # NoUser /\ context.user.role = condition.role THEN "true" ELSE "false"
  ELSE IF condition.type = "field_exists"
  THEN IF context.input[condition.field] \notin {ABSENT, NULL} THEN "true" ELSE "false"
  ELSE IF condition.type = "field_unique_in"
  THEN LET value == context.input[condition.field]
           result == dbList(condition.collection,
                            [NoFilters EXCEPT ![condition.field] = value], d, idx)
       IN IF value \in {ABSENT, NULL} THEN "true"
          ELSE IF result.threw THEN "throw"
          ELSE IF Len(result.data) = 0 THEN "true" ELSE "false"
  ELSE "true"

\* --------------------------------------------------------- action executor

\* A PlanStep: type and the entries of config executeStep reads (condition of
\* check as its truthiness; fields of db_write map the input; id 0: none)
NoPlanStep ==
  [type |-> "none", field |-> "", rule |-> "", errorCode |-> ABSENT,
   condition |-> FALSE, collection |-> "", operation |-> "", id |-> 0,
   resultVar |-> ABSENT]

PlanSteps ==
  { [NoPlanStep EXCEPT !.type = "validate", !.field = "email", !.rule = "required"],
    [NoPlanStep EXCEPT !.type = "validate", !.field = "email", !.rule = "required",
                       !.errorCode = "email_required"],
    [NoPlanStep EXCEPT !.type = "check", !.condition = TRUE],
    [NoPlanStep EXCEPT !.type = "check", !.condition = FALSE],
    [NoPlanStep EXCEPT !.type = "db_read", !.collection = CollectionName,
                       !.resultVar = "found"],
    [NoPlanStep EXCEPT !.type = "db_read", !.collection = "nope", !.resultVar = "found"],
    [NoPlanStep EXCEPT !.type = "db_write", !.collection = CollectionName,
                       !.operation = "create", !.resultVar = "saved"],
    [NoPlanStep EXCEPT !.type = "db_write", !.collection = CollectionName,
                       !.operation = "update", !.id = 1, !.resultVar = "saved"],
    [NoPlanStep EXCEPT !.type = "db_delete", !.collection = CollectionName, !.id = 1],
    [NoPlanStep EXCEPT !.type = "db_delete", !.collection = CollectionName, !.id = 2],
    [NoPlanStep EXCEPT !.type = "set_field"] }

\* what a step ends with: nothing thrown, a StepError (typed) with its code
\* and message, or another error with its message
NoError == [thrown |-> "none", code |-> "", message |-> ""]
StepError(code, message) == [thrown |-> "typed", code |-> code, message |-> message]
OtherError(message) == [thrown |-> "other", code |-> "", message |-> message]

\* config.errorCode ?? fallback
OrElse(value, fallback) == IF value \in {ABSENT, NULL} THEN fallback ELSE value

\* executeValidate, executeCheck, executeSetField, and the part of
\* executeDbRead / executeDbWrite / executeDbDelete before the storage call
executeStep(step, input) ==
  IF step.type = "validate"
  THEN IF step.rule = "required" /\ input[step.field] \in {ABSENT, NULL, ""}
       THEN StepError(OrElse(step.errorCode, "invalid_input"), "required")
       ELSE NoError
  ELSE IF step.type = "check"
  THEN IF step.condition THEN NoError ELSE StepError("check_failed", "Check failed")
  ELSE IF step.type \in {"db_read", "db_write", "db_delete"}
  THEN IF requireCollection(step.collection) THEN NoError
       ELSE OtherError("Collection not found")
  ELSE NoError

\* the step reaches Collection.create / update / delete
WritesStorage(step) ==
  /\ step.type \in {"db_write", "db_delete"}
  /\ requireCollection(step.collection)

\* the operation executeDbWrite / executeDbDelete hands to the engine
PlanDbKind(step) ==
  IF step.type = "db_delete" THEN "delete"
  ELSE IF step.operation = "update" THEN "update"
  ELSE "create"

\* executeDbWrite / executeDbDelete after the storage call: an error of the
\* engine propagates as it is; db.delete returning false is a StepError
afterStorage(step, r) ==
  IF r.kind = "error" THEN OtherError(r.code)
  ELSE IF step.type = "db_delete" /\ r.kind = "not_found"
  THEN StepError("not_found", "Record not found")
  ELSE NoError

\* what executeStep returns: the resultVar of db_read / db_write, undefined
\* for validate, check, db_delete and set_field
stepResultVar(step) ==
  IF step.type \in {"db_read", "db_write"} THEN step.resultVar ELSE ABSENT

\* the variables the plans name, and what context.vars holds for them
ResultVars == {"found", "saved"}
NoValue == [kind |-> "undefined", record |-> NoRec, data |-> <<>>]
NoVars == [v \in ResultVars |-> NoValue]

\* executeDbRead by filters: context.vars[resultVar] = the ListResult
readValue(d) == [NoValue EXCEPT !.kind = "list", !.data = getAllRecords(d)]

\* executeDbWrite: context.vars[resultVar] = the record db.create /
\* db.update returned (null when update found no record)
writtenValue(r) ==
  IF r.kind = "ok" THEN [NoValue EXCEPT !.kind = "record", !.record = r.post]
  ELSE [NoValue EXCEPT !.kind = "null"]

NoResultData == [whole |-> FALSE, value |-> NoValue, vars |-> NoVars]

resultData_context(contextVars, last) ==
  [whole |-> TRUE, value |-> NoValue, vars |-> contextVars]

\* executeAction, after the loop:
\* data = lastResultVar ? context.vars[lastResultVar] : context.vars
resultData(contextVars, last) ==
  IF last # ABSENT
  THEN [whole |-> FALSE, value |-> contextVars[last], vars |-> NoVars]
  ELSE [whole |-> TRUE, value |-> NoValue, vars |-> contextVars]

caught_oneBased(i, err) ==
  IF err.thrown = "typed"
  THEN [returned |-> TRUE, success |-> FALSE, code |-> err.code,
        message |-> err.message, failedStep |-> i + 1]
  ELSE [returned |-> TRUE, success |-> FALSE, code |-> "internal_error",
        message |-> err.message, failedStep |-> i + 1]

caught_rethrown(i, err) ==
  [returned |-> FALSE, success |-> FALSE, code |-> "", message |-> "", failedStep |-> i]

\* the catch block of executeAction: a StepError is reported with its code,
\* anything else as internal_error; failedStep is the loop index
caught(i, err) ==
  IF err.thrown = "typed"
  THEN [returned |-> TRUE, success |-> FALSE, code |-> err.code,
        message |-> err.message, failedStep |-> i]
  ELSE [returned |-> TRUE, success |-> FALSE, code |-> "internal_error",
        message |-> err.message, failedStep |-> i]

VARIABLES
  now,        \* wall clock
  nextId,     \* next fresh record id
  disk,       \* record files of the collection: id -> record
  wal,        \* WAL directory: file name -> entry
  locks,      \* CollectionLock.locks: collection -> owner
  indexes,    \* IndexManager.indexes for the collection: field -> key -> ids
  counts,     \* IndexManager.counts for the collection
  persisted,  \* _index.json of the collection
  pc,         \* writer -> position inside its operation
  op,         \* writer -> operation in flight
  deadline,   \* writer -> deadline of its lock acquisition
  existing,   \* writer -> record read under the lock
  record,     \* writer -> record built / updated
  res,        \* writer -> outcome delivered to the caller
  concWith,   \* writer -> writers whose latest operation overlapped its latest one
  nUpdates,   \* id -> number of update post-images committed to disk
  lastLogged, \* id -> name of the WAL file the latest wal.log for the record wrote
  nOps,       \* operations invoked so far
  rpc,        \* reader: position inside read / list
  rop,        \* reader: the query in flight
  rfiles,     \* reader: directory entries getAllRecords has still to read
  racc,       \* reader: records getAllRecords has read so far
  rres,       \* reader: result delivered to the caller
  seen,       \* record sets the collection went through during the query
  wf,         \* workflow: number of steps, and the compensations once read
  wfpc,       \* workflow: position of the executor
  wpos,       \* workflow: index of the current step
  wstep,      \* workflow: the step executeWorkflowStep is running
  wsub,       \* workflow: the sub-step reached inside the step
  wout,       \* workflow: outcomes of sub-steps / context entry of the last step
  stepResults,\* workflow: index -> StepResult
  wresult,    \* workflow: the WorkflowResult returned
  wtrace,     \* workflow: the steps begun so far and where a failure occurred in them
  ruleSets,   \* rules: categories of the project's rule sets, in insertion order
  ctx,        \* rules: the RuleContext (toolName, input, user)
  esorted,    \* rules: the sorted array of evaluateRules (positions of the sets)
  epc,        \* rules: position of evaluateRules
  eset,       \* rules: position of the outer loop in the sorted rule sets
  erule,      \* rules: position of the inner loop in the rules of the set
  cconds,     \* rules: what the conditions of the rule under way evaluated to
  eresult,    \* rules: what evaluateRules returned (or that it threw)
  elast,      \* rules: the rule evaluated last and how it ended
  tpc,        \* tool: position of the tool handler
  apc,        \* tool: position of executeAction
  plan,       \* tool: the execution plan (number of steps)
  ppos,       \* tool: loop index i of executeAction
  astep,      \* tool: the step awaiting its storage call
  aresult,    \* tool: the ExecutionResult
  atrace,     \* tool: the steps run so far and what each threw
  cvars,      \* tool: context.vars of executeAction
  lastResultVar, \* tool: lastResultVar of executeAction
  adata,      \* tool: data of the ExecutionResult
  tresponse,   \* tool: the CallToolResult of the handler
  persistTimer, \* DatabaseEngine.persistTimer: an interval handle, 0 for null
  timers,     \* the interval handles active in the event loop
  nInits,     \* calls of DatabaseEngine.init so far
  stopped,    \* DatabaseEngine.shutdown has completed
  rvSource,   \* resolveValue: the source argument
  rvContext,  \* resolveValue: the ExecutionContext argument
  rvResult,   \* resolveValue: the value returned
  rvpc,       \* resolveValue: "idle", "called" or "returned"
  unmatched,  \* owner -> collection -> acquire calls returned and not yet released
  icall,      \* callIntegration: the integration and actionName arguments
  ipc,        \* callIntegration: position of the call
  maxAttempts,\* executeWithRetry: maxAttempts
  attempt,    \* executeWithRetry: the loop variable
  fetches,    \* the results executeOnce has returned during the call, in order
  iresult     \* callIntegration: the IntegrationCallResult returned

vars == <<now, nextId, disk, wal, locks, indexes, counts, persisted,
          pc, op, deadline, existing, record, res, concWith, nUpdates, lastLogged, nOps,
          rpc, rop, rfiles, racc, rres, seen,
          wf, wfpc, wpos, wstep, wsub, wout, stepResults, wresult, wtrace,
          ruleSets, ctx, esorted, epc, eset, erule, cconds, eresult, elast,
          tpc, apc, plan, ppos, astep, aresult, atrace, cvars, lastResultVar,
          adata, tresponse, persistTimer, timers, nInits, stopped,
          rvSource, rvContext, rvResult, rvpc, unmatched,
          icall, ipc, maxAttempts, attempt, fetches, iresult>>

readerVars == <<rpc, rop, rfiles, racc, rres, seen>>
engineVars == <<now, nextId, disk, wal, locks, indexes, counts, persisted,
                pc, op, deadline, existing, record, res, concWith, nUpdates, lastLogged, nOps>>
workflowVars == <<wf, wfpc, wpos, wstep, wsub, wout, stepResults, wresult, wtrace>>
ruleVars == <<ruleSets, ctx, esorted, epc, eset, erule, cconds, eresult, elast>>
toolVars == <<tpc, apc, plan, ppos, astep, aresult, atrace, cvars, lastResultVar,
              adata, tresponse>>
lifecycleVars == <<persistTimer, timers, nInits, stopped>>
resolverVars == <<rvSource, rvContext, rvResult, rvpc>>
lockHistoryVars == <<unmatched>>
integrationVars == <<icall, ipc, maxAttempts, attempt, fetches, iresult>>
otherVars == <<resolverVars, lockHistoryVars, integrationVars>>
runtimeVars == <<workflowVars, ruleVars, toolVars, lifecycleVars, otherVars>>

\* ------------------------------------------------------------ resolveValue

\* JavaScript values: a string is the sequence of its characters, an object
\* a function from property names to values.
Undefined == [t |-> "undefined"]
Null == [t |-> "null"]
Bool(b) == [t |-> "boolean", b |-> b]
Num(n) == [t |-> "number", n |-> n]
Text(s) == [t |-> "string", s |-> s]
Obj(o) == [t |-> "object", o |-> o]

INPUT_PREFIX == <<"i", "n", "p", "u", "t", ".">>
CONTEXT_PREFIX == <<"c", "o", "n", "t", "e", "x", "t", ".">>
USER_PREFIX == <<"u", "s", "e", "r", ".">>

\* str.slice(n)
sliceFrom(str, n) == SubSeq(str, n + 1, Len(str))

split_whole(str, sep) == <<str>>

\* str.split(sep) for a separator of one character
RECURSIVE split(_, _)
split(str, sep) ==
  IF \A i \in 1..Len(str) : str[i] # sep THEN <<str>>
  ELSE LET at == CHOOSE i \in 1..Len(str) :
                   str[i] = sep /\ \A j \in 1..(i - 1) : str[j] # sep
       IN <<SubSeq(str, 1, at - 1)>> \o split(sliceFrom(str, at), sep)

\* object[key]: undefined for a key the object does not have
getProperty(object, key) ==
  IF key \in DOMAIN object.o THEN object.o[key] ELSE Undefined

\* the loop over the parts of a "context." reference
RECURSIVE walk(_, _)
walk(value, parts) ==
  IF parts = <<>> THEN value
  ELSE IF value.t = "object" THEN walk(getProperty(value, Head(parts)), Tail(parts))
  ELSE Undefined

Digits == <<"0", "1", "2", "3", "4", "5", "6", "7", "8", "9">>
IsDigit(c) == \E d \in 1..Len(Digits) : Digits[d] = c
DigitValue(c) == (CHOOSE d \in 1..Len(Digits) : Digits[d] = c) - 1

\* str.trim()
RECURSIVE trim(_)
trim(str) ==
  IF str # <<>> /\ Head(str) = " " THEN trim(Tail(str))
  ELSE IF str # <<>> /\ str[Len(str)] = " " THEN trim(SubSeq(str, 1, Len(str) - 1))
  ELSE str

\* Number(str) is not NaN, for strings of letters, digits, blanks and dots
\* that hold no decimal fraction: blanks, or decimal digits between blanks
isNumeric(str) == \A i \in 1..Len(trim(str)) : IsDigit(trim(str)[i])

RECURSIVE decimalValue(_)
decimalValue(digits) ==
  IF digits = <<>> THEN 0
  ELSE 10 * decimalValue(SubSeq(digits, 1, Len(digits) - 1)) + DigitValue(digits[Len(digits)])

\* Number(str) of such a string
toNumber(str) == decimalValue(trim(str))

\* resolveValue(source, context)
resolveValue(source, context) ==
  IF source.t # "string" THEN source
  ELSE LET str == source.s
       IN IF startsWith(str, INPUT_PREFIX)
          THEN getProperty(context.input, sliceFrom(str, 6))
          ELSE IF startsWith(str, CONTEXT_PREFIX)
          THEN walk(context.vars, split(sliceFrom(str, 8), "."))
          ELSE IF startsWith(str, USER_PREFIX)
          THEN IF context.user.t # "object" THEN Undefined
               ELSE getProperty(context.user, sliceFrom(str, 5))
          ELSE IF str = <<"t", "r", "u", "e">> THEN Bool(TRUE)
          ELSE IF str = <<"f", "a", "l", "s", "e">> THEN Bool(FALSE)
          ELSE IF str = <<"n", "u", "l", "l">> THEN Null
          ELSE IF isNumeric(str) /\ trim(str) # <<>> THEN Num(toNumber(str))
          ELSE source

EmptyContext == [input |-> Obj(<<>>), vars |-> Obj(<<>>), user |-> Undefined]

\* an optional number (limit and offset of QueryOptions, maxRetries)
NotGiven == [given |-> FALSE, n |-> 0]
Given(n) == [given |-> TRUE, n |-> n]

\* --------------------------------------------------------- callIntegration

\* IntegrationCallResult; status 0 stands for a result without status
NoStatus == 0
NoCallResult == [returned |-> FALSE, success |-> FALSE, status |-> NoStatus, error |-> ""]

CallResult(success, status, error) ==
  [returned |-> TRUE, success |-> success, status |-> status, error |-> error]

\* `${status}`
statusText(status) ==
  CASE status = 200 -> "200"
    [] status = 404 -> "404"
    [] status = 503 -> "503"
    [] OTHER -> "0"

\* policies.find(...) returning undefined
NoPolicy == [condition |-> "", action |-> "none", maxRetries |-> NotGiven]

\* findMatchingPolicy: undefined for a result without status, else the first
\* policy whose condition is the status itself or the range it lies in
findMatchingPolicy(policies, status) ==
  IF status = NoStatus THEN NoPolicy
  ELSE LET matches(p) ==
             \/ p.condition = statusText(status)
             \/ p.condition = "5xx" /\ status >= 500 /\ status < 600
             \/ p.condition = "4xx" /\ status >= 400 /\ status < 500
           found == { n \in 1..Len(policies) : matches(policies[n]) }
       IN IF found = {} THEN NoPolicy
          ELSE policies[CHOOSE n \in found : \A m \in found : n <= m]

\* getMaxAttempts: (maxRetries of the first retry policy ?? 0) + 1
getMaxAttempts(policies) ==
  LET found == { n \in 1..Len(policies) : policies[n].action = "retry" }
  IN IF found = {} THEN 1
     ELSE LET retryPolicy == policies[CHOOSE n \in found : \A m \in found : n <= m]
          IN (IF retryPolicy.maxRetries.given THEN retryPolicy.maxRetries.n ELSE 0) + 1

\* String.prototype.toLowerCase on the action names in use
toLowerCase(str) == IF str = "Send" THEN "send" ELSE str

\* integration.actions.find(a => a.name.toLowerCase() === actionName.toLowerCase())
findAction(integration, actionName) ==
  { a \in integration.actions : toLowerCase(a) = toLowerCase(actionName) }

\* new URL(path, base) of buildUrl throws a TypeError unless the base is an
\* absolute URL; parseProvider yields "" for a file that names no URL
buildUrlThrows(baseUrl) == baseUrl \notin {"https://api.example.com"}

NoCall == [integration |-> [baseUrl |-> "", actions |-> {}, errorHandling |-> <<>>],
           actionName |-> ""]

\* ------------------------------------------------------------------ state

NoOp == [kind |-> "none", id |-> 0, data |-> NoData]

\* What an operation delivers to its caller: the returned record (post) or
\* null / false (not_found) or the error thrown; op, id, pre (the record the
\* operation read under the lock) and timedOut describe the call.
NoRes == [kind |-> "none", op |-> "none", id |-> 0, code |-> "", field |-> "",
          value |-> ABSENT, pre |-> NoRec, post |-> NoRec, timedOut |-> FALSE]

Returned(o, pre, post) ==
  [NoRes EXCEPT !.kind = "ok", !.op = o.kind, !.id = o.id, !.pre = pre, !.post = post]

NotFound(o) == [NoRes EXCEPT !.kind = "not_found", !.op = o.kind, !.id = o.id]

Failure(o, code, field, value, timedOut) ==
  [NoRes EXCEPT !.kind = "error", !.op = o.kind, !.id = o.id, !.code = code,
                !.field = field, !.value = value, !.timedOut = timedOut]

\* the WAL entry of the creation of a record already on disk at start-up
InitialWal(d) ==
  [fn \in { WalFileName(d[i]["_created_at"], "create", CollectionName, i) : i \in DOMAIN d } |->
     [operation |-> "create", collection |-> CollectionName,
      record_id |-> fn[4], previous_state |-> NoRec,
      new_state |-> d[fn[4]], timestamp |-> fn[1]]]

NoQuery == [kind |-> "none", id |-> 0, filters |-> NoFilters]
NoResult == [kind |-> "none", record |-> NoRec, data |-> <<>>, total |-> 0]

NoStepResult == [status |-> "none", error |-> ""]
NoWorkflow == [n |-> 0, compensations |-> <<>>]
NoWorkflowResult ==
  [returned |-> FALSE, success |-> FALSE, step |-> 0, message |-> "",
   compensationResults |-> <<>>]

\* no workflow is running
WorkflowIdle ==
  /\ wf = NoWorkflow
  /\ wfpc = "idle"
  /\ wpos = 0
  /\ wstep = NoStep
  /\ wsub = 0
  /\ wout = <<>>
  /\ stepResults = [k \in 1..MaxSteps |-> NoStepResult]
  /\ wresult = NoWorkflowResult
  /\ wtrace = <<>>

NoRuleResult == [kind |-> "none", set |-> 0, rule |-> 0]
NoRule == [set |-> 0, rule |-> 0, verdict |-> "none"]
NoContext == [toolName |-> <<>>, input |-> NoData, user |-> NoUser]

\* evaluateRules is not running
RulesIdle ==
  /\ ruleSets = <<>>
  /\ ctx = NoContext
  /\ esorted = <<>>
  /\ epc = "idle"
  /\ eset = 0
  /\ erule = 0
  /\ cconds = <<>>
  /\ eresult = NoRuleResult
  /\ elast = NoRule

NoPlan == [n |-> 0]
NoActionResult ==
  [returned |-> FALSE, success |-> FALSE, code |-> "", message |-> "", failedStep |-> 0]
NoResponse == [kind |-> "none", source |-> "", code |-> "", set |-> 0, rule |-> 0]

\* no tool call is under way
ToolIdle ==
  /\ tpc = "idle"
  /\ apc = "idle"
  /\ plan = NoPlan
  /\ ppos = 0
  /\ astep = NoPlanStep
  /\ aresult = NoActionResult
  /\ atrace = <<>>
  /\ cvars = NoVars
  /\ lastResultVar = ABSENT
  /\ adata = NoResultData
  /\ tresponse = NoResponse

\* no query is running
InitReader ==
  /\ rpc = "idle"
  /\ rop = NoQuery
  /\ rfiles = <<>>
  /\ racc = <<>>
  /\ rres = NoResult
  /\ seen = {}

\* DatabaseEngine.init on a database directory holding the records d, apart
\* from the lock map; no snapshot yet
InitStorage(d) ==
  /\ now = 0
  /\ disk = d
  /\ nextId = Cardinality(DOMAIN disk) + 1
  /\ wal = InitialWal(disk)
  /\ persisted = NoSnapshot
  /\ indexes = buildForCollection(persisted, disk).indexes
  /\ counts = buildForCollection(persisted, disk).counts
  /\ pc = [w \in Writers |-> "idle"]
  /\ op = [w \in Writers |-> NoOp]
  /\ deadline = [w \in Writers |-> 0]
  /\ existing = [w \in Writers |-> NoRec]
  /\ record = [w \in Writers |-> NoRec]
  /\ res = [w \in Writers |-> NoRes]
  /\ concWith = [w \in Writers |-> {}]
  /\ nUpdates = [i \in Ids |-> 0]
  /\ lastLogged = [i \in Ids |->
                     IF i \in DOMAIN d
                     THEN WalFileName(d[i]["_created_at"], "create", CollectionName, i)
                     ELSE <<>>]
  /\ nOps = 0

\* DatabaseEngine.init: the storage as found and a new, empty CollectionLock
InitEngine(d) ==
  /\ InitStorage(d)
  /\ locks = [c \in {CollectionName} |-> NoOwner]

\* the runtime above the engine is at rest
\* DatabaseEngine.init has run once: startIndexPersistence has set the
\* interval and stored its handle
EngineStarted ==
  /\ persistTimer = 1
  /\ timers = {1}
  /\ nInits = 1
  /\ stopped = FALSE

\* no call of resolveValue is being looked at
ResolverIdle ==
  /\ rvSource = Undefined
  /\ rvContext = EmptyContext
  /\ rvResult = Undefined
  /\ rvpc = "idle"

\* no acquire of CollectionLock is being counted
LocksUncounted == unmatched = [w \in Writers |-> [c \in {CollectionName, "users"} |-> 0]]

\* no call of callIntegration is being looked at
IntegrationIdle ==
  /\ icall = NoCall
  /\ ipc = "idle"
  /\ maxAttempts = 0
  /\ attempt = 0
  /\ fetches = <<>>
  /\ iresult = NoCallResult

\* the parts of the runtime that hold no state of their own between calls
ServicesIdle == EngineStarted /\ ResolverIdle /\ LocksUncounted /\ IntegrationIdle

RuntimeIdle == WorkflowIdle /\ RulesIdle /\ ToolIdle /\ ServicesIdle

\* DatabaseEngine.init on a database directory that is empty, or holds one
\* record written under the earlier schema, or that record and one written
\* under the current schema; no snapshot yet.
Init ==
  /\ \E d \in { [i \in {} |-> NoRec], [i \in {1} |-> LegacyRecord],
                [i \in {1, 2} |-> IF i = 1 THEN LegacyRecord ELSE SecondRecord] } :
       InitEngine(d)
  /\ InitReader
  /\ RuntimeIdle

writerLocals == <<op, deadline, existing, record, concWith>>

\* the operation of writer w has returned or thrown: its frame is gone
Leave(w, result) ==
  /\ res' = [res EXCEPT ![w] = result]
  /\ pc' = [pc EXCEPT ![w] = "idle"]
  /\ op' = [op EXCEPT ![w] = NoOp]
  /\ deadline' = [deadline EXCEPT ![w] = 0]
  /\ existing' = [existing EXCEPT ![w] = NoRec]
  /\ record' = [record EXCEPT ![w] = NoRec]
  /\ UNCHANGED concWith
storage == <<disk, wal, indexes, counts, persisted, nUpdates, lastLogged>>
clocks == <<now, nextId, nOps>>

\* ids that creates still waiting for the lock will draw
PendingCreates == Cardinality({ v \in Writers : pc[v] = "acquire" /\ op[v].kind = "create" })

\* ---------------------------------------------------------------- writers

\* A caller invokes Collection.create / update / delete. The call runs
\* without yielding into CollectionLock.acquire, whose first pass of the
\* loop takes the lock when no entry exists; create then builds its record.
\* When the lock is held the call starts polling (deadline = now + timeout).
\* Owner ids are fresh UUIDs, so callers are interchangeable: a call that
\* overlaps no other is named FirstWriter.
Start(w, kind, id, data) ==
  /\ pc[w] = "idle"
  /\ w # FirstWriter => pc[FirstWriter] # "idle"
  /\ nOps < MaxOps
  /\ kind = "create" => nextId + PendingCreates <= MaxIds
  /\ nOps' = nOps + 1
  /\ res' = [v \in Writers |->
               IF v = w \/ (\A u \in Writers : pc[u] = "idle") THEN NoRes ELSE res[v]]
  /\ existing' = [existing EXCEPT ![w] = NoRec]
  /\ concWith' = [v \in Writers |->
                    IF v = w THEN { u \in Writers \ {w} : pc[u] # "idle" }
                    ELSE IF pc[v] # "idle" THEN concWith[v] \cup {w}
                    ELSE concWith[v] \ {w}]
  /\ IF acquireGrants(locks, CollectionName, w)
     THEN /\ locks' = [locks EXCEPT ![CollectionName] = w]
          /\ deadline' = [deadline EXCEPT ![w] = 0]
          /\ IF kind = "create"
             THEN /\ record' = [record EXCEPT ![w] = buildRecord(data, nextId, now)]
                  /\ op' = [op EXCEPT ![w] = [kind |-> kind, id |-> nextId, data |-> data]]
                  /\ nextId' = nextId + 1
                  /\ pc' = [pc EXCEPT ![w] = "unique"]
             ELSE /\ record' = [record EXCEPT ![w] = NoRec]
                  /\ op' = [op EXCEPT ![w] = [kind |-> kind, id |-> id, data |-> data]]
                  /\ pc' = [pc EXCEPT ![w] = "read"]
                  /\ UNCHANGED nextId
     ELSE /\ op' = [op EXCEPT ![w] = [kind |-> kind, id |-> id, data |-> data]]
          /\ deadline' = [deadline EXCEPT ![w] = now + DEFAULT_TIMEOUT_MS]
          /\ record' = [record EXCEPT ![w] = NoRec]
          /\ pc' = [pc EXCEPT ![w] = "acquire"]
          /\ UNCHANGED <<locks, nextId>>
  /\ UNCHANGED <<now, storage>>

\* ids a caller may name: those handed out so far and one not handed out yet
KnownIds == { i \in Ids : i <= nextId }

StartCreate(w) == \E data \in Payloads : Start(w, "create", 0, data)
StartUpdate(w) == \E id \in KnownIds, data \in Payloads : Start(w, "update", id, data)
StartDelete(w) == \E id \in KnownIds : Start(w, "delete", id, NoOp.data)

\* getCollectionNames().join(", ") (the engine has one collection)
joinCollectionNames == CHOOSE c \in Collections : TRUE

\* A caller invokes DatabaseEngine.create / read / list / update / delete
\* with a collection name the engine has not registered: requireCollection
\* throws 'Collection "..." not found. Available: ...' before any method of a
\* Collection runs.
CallUnknown(w) ==
  /\ pc[w] = "idle"
  /\ nOps < MaxOps
  /\ nOps' = nOps + 1
  /\ \E name \in {"nope"}, kind \in {"create", "read", "list", "update", "delete"} :
       /\ ~requireCollection(name)
       /\ res' = [res EXCEPT ![w] =
                    Failure([kind |-> kind, id |-> 0], "not_found", "collection",
                            joinCollectionNames, FALSE)]
  /\ UNCHANGED <<now, nextId, locks, storage, pc, writerLocals>>

\* CollectionLock.acquire of a waiting call: a poll before the deadline that
\* finds the lock free; create goes on to buildRecord, update / delete to
\* read(id).
Acquire(w) ==
  /\ pc[w] = "acquire"
  /\ now < deadline[w]
  /\ acquireGrants(locks, CollectionName, w)
  /\ locks' = [locks EXCEPT ![CollectionName] = w]
  /\ IF op[w].kind = "create"
     THEN /\ record' = [record EXCEPT ![w] = buildRecord(op[w].data, nextId, now)]
          /\ op' = [op EXCEPT ![w].id = nextId]
          /\ nextId' = nextId + 1
          /\ pc' = [pc EXCEPT ![w] = "unique"]
     ELSE /\ pc' = [pc EXCEPT ![w] = "read"]
          /\ UNCHANGED <<record, op, nextId>>
  /\ deadline' = [deadline EXCEPT ![w] = 0]
  /\ UNCHANGED <<now, nOps, storage, existing, res, concWith>>

\* CollectionLock.acquire leaves its loop at the deadline and throws the lock
\* timeout; the finally block of the operation then calls release, whose
\* own throw (lock held by another owner) replaces the timeout.
AcquireTimeout(w) ==
  /\ pc[w] = "acquire"
  /\ now >= deadline[w]
  /\ LET r == release(locks, CollectionName, w)
     IN /\ locks' = r.locks
        /\ Leave(w, IF r.threw
                    THEN Failure(op[w], "release_not_owner", "", ABSENT, TRUE)
                    ELSE Failure(op[w], "lock_timeout", "", ABSENT, TRUE))
  /\ UNCHANGED <<clocks, storage>>

\* update / delete: read(id) under the lock; absent record returns null /
\* false through the finally block; update goes on to applyUpdate.
ReadExisting(w) ==
  /\ pc[w] = "read"
  /\ IF op[w].id \notin DOMAIN disk
     THEN /\ locks' = release(locks, CollectionName, w).locks
          /\ Leave(w, NotFound(op[w]))
     ELSE /\ existing' = [existing EXCEPT ![w] = applySchemaEvolution(disk[op[w].id])]
          /\ IF op[w].kind = "update"
             THEN /\ record' = [record EXCEPT ![w] =
                                  applyUpdate(existing'[w], op[w].data, now)]
                  /\ pc' = [pc EXCEPT ![w] = "unique"]
             ELSE /\ pc' = [pc EXCEPT ![w] = "wal"]
                  /\ UNCHANGED record
          /\ UNCHANGED <<locks, res, op, deadline, concWith>>
  /\ UNCHANGED <<clocks, storage>>

\* create / update: enforceUniqueness; a conflict throws
\* UniqueConstraintError(field, value) through the finally block.
CheckUnique(w) ==
  /\ pc[w] = "unique"
  /\ LET conflicts == enforceUniqueness(record[w],
                         IF op[w].kind = "update" THEN op[w].id ELSE 0, disk)
     IN IF conflicts # {}
        THEN LET f == CHOOSE x \in conflicts : TRUE
             IN /\ locks' = release(locks, CollectionName, w).locks
                /\ Leave(w, Failure(op[w], "unique_violation", f, record[w][f], FALSE))
        ELSE /\ pc' = [pc EXCEPT ![w] = "wal"]
             /\ UNCHANGED <<locks, res, writerLocals>>
  /\ UNCHANGED <<clocks, storage>>

\* wal.log(operation, name, id, previous, new)
WalAppend(w) ==
  /\ pc[w] = "wal"
  /\ wal' = WalLog(wal, op[w].kind, CollectionName, op[w].id,
                   existing[w], record[w], now)
  /\ lastLogged' = [lastLogged EXCEPT ![op[w].id] =
                      WalFileName(now, op[w].kind, CollectionName, op[w].id)]
  /\ pc' = [pc EXCEPT ![w] = "write"]
  /\ UNCHANGED <<clocks, locks, disk, indexes, counts, persisted, nUpdates,
                 writerLocals, res>>

\* atomicWrite (temp file, then rename over the record file) or unlink
WriteFile(w) ==
  /\ pc[w] = "write"
  /\ IF op[w].kind = "delete"
     THEN /\ disk' = [i \in (DOMAIN disk) \ {op[w].id} |-> disk[i]]
          /\ UNCHANGED nUpdates
     ELSE /\ disk' = [i \in (DOMAIN disk) \cup {op[w].id} |->
                        IF i = op[w].id THEN record[w] ELSE disk[i]]
          /\ nUpdates' = IF op[w].kind = "update"
                         THEN [nUpdates EXCEPT ![op[w].id] = @ + 1]
                         ELSE nUpdates
  /\ pc' = [pc EXCEPT ![w] = "index"]
  /\ UNCHANGED <<clocks, locks, wal, indexes, counts, persisted, lastLogged,
                 writerLocals, res>>

\* the continuation after the file mutation: the index manager callback,
\* the return, and the release of the finally block
UpdateIndex(w) ==
  /\ pc[w] = "index"
  /\ CASE op[w].kind = "create" ->
            /\ indexes' = onRecordCreated(indexes, record[w])
            /\ counts' = counts + 1
       [] op[w].kind = "update" ->
            /\ indexes' = onRecordUpdated(indexes, existing[w], record[w])
            /\ UNCHANGED counts
       [] OTHER ->
            /\ indexes' = onRecordDeleted(indexes, existing[w])
            /\ counts' = IF counts - 1 > 0 THEN counts - 1 ELSE 0
  /\ locks' = release(locks, CollectionName, w).locks
  /\ Leave(w, Returned(op[w], existing[w], record[w]))
  /\ UNCHANGED <<clocks, disk, wal, persisted, nUpdates, lastLogged>>

IoFailure_noFinally(w) ==
  /\ pc[w] \in {"wal", "write"}
  /\ Leave(w, Failure(op[w], "io_error", "", ABSENT, FALSE))
  /\ UNCHANGED <<clocks, locks, storage>>

\* wal.log, writeFile, rename or unlink rejects: the error leaves through the
\* finally block
IoFailure(w) ==
  /\ pc[w] \in {"wal", "write"}
  /\ locks' = release(locks, CollectionName, w).locks
  /\ Leave(w, Failure(op[w], "io_error", "", ABSENT, FALSE))
  /\ UNCHANGED <<clocks, storage>>

\* ----------------------------------------------------- CollectionLock alone

\* the keys callers of CollectionLock use
LockNames == {CollectionName, "users"}

\* A CollectionLock in any state of its map, used directly by two owners.
InitLock ==
  /\ InitStorage([i \in {} |-> NoRec])
  /\ locks \in [LockNames -> Writers \cup {NoOwner}]
  /\ unmatched \in [Writers -> [LockNames -> 0..MaxAcquires]]
  /\ \A w \in Writers, c \in LockNames : unmatched[w][c] > 0 <=> locks[c] = w
  /\ InitReader
  /\ WorkflowIdle /\ RulesIdle /\ ToolIdle /\ EngineStarted /\ ResolverIdle
  /\ IntegrationIdle

\* what acquire / release delivers to its caller
LockOutcome(call, collection, kind, code) ==
  [NoRes EXCEPT !.kind = kind, !.op = call, !.field = collection, !.code = code]

\* acquire(collection, w) up to its first await: the first pass of the loop
\* takes the free lock (or finds it held by w itself) and returns, else the
\* call sleeps until the next poll
LockAcquire(w, collection) ==
  /\ pc[w] = "idle"
  /\ nOps < MaxOps
  /\ nOps' = nOps + 1
  /\ IF acquireGrants(locks, collection, w)
     THEN /\ locks' = [locks EXCEPT ![collection] = w]
          /\ unmatched' = [unmatched EXCEPT ![w][collection] = @ + 1]
          /\ Leave(w, LockOutcome("acquire", collection, "ok", ""))
     ELSE /\ pc' = [pc EXCEPT ![w] = "acquire"]
          /\ op' = [op EXCEPT ![w] = [kind |-> "acquire", id |-> 0, data |-> NoData,
                                      collection |-> collection]]
          /\ deadline' = [deadline EXCEPT ![w] = now + DEFAULT_TIMEOUT_MS]
          /\ res' = [res EXCEPT ![w] = NoRes]
          /\ UNCHANGED <<locks, existing, record, concWith, unmatched>>
  /\ UNCHANGED <<now, nextId, storage>>

\* a later pass of the loop, before the deadline, finds the lock free
LockPoll(w) ==
  /\ pc[w] = "acquire"
  /\ now < deadline[w]
  /\ acquireGrants(locks, op[w].collection, w)
  /\ locks' = [locks EXCEPT ![op[w].collection] = w]
  /\ unmatched' = [unmatched EXCEPT ![w][op[w].collection] = @ + 1]
  /\ Leave(w, LockOutcome("acquire", op[w].collection, "ok", ""))
  /\ UNCHANGED <<clocks, storage>>

\* the loop ends at the deadline: acquire throws the lock timeout
LockTimeout(w) ==
  /\ pc[w] = "acquire"
  /\ now >= deadline[w]
  /\ Leave(w, LockOutcome("acquire", op[w].collection, "error", "lock_timeout"))
  /\ UNCHANGED <<clocks, locks, storage, unmatched>>

\* release(collection, w)
LockRelease(w, collection) ==
  /\ pc[w] = "idle"
  /\ nOps < MaxOps
  /\ nOps' = nOps + 1
  /\ LET r == release(locks, collection, w)
     IN /\ locks' = r.locks
        /\ unmatched' = IF r.threw \/ unmatched[w][collection] = 0 THEN unmatched
                        ELSE [unmatched EXCEPT ![w][collection] = @ - 1]
        /\ Leave(w, IF r.threw
                    THEN LockOutcome("release", collection, "error", "not_owner")
                    ELSE LockOutcome("release", collection, "ok", ""))
  /\ UNCHANGED <<now, nextId, storage>>

\* An engine with a second collection. A write to it is modelled by the lock
\* calls that bracket it: the lock map is the only state the collections of
\* one engine share.
OtherCollection == "users"
OtherWriter == "w2"

InitShared ==
  /\ \E d \in { [i \in {} |-> NoRec], [i \in {1} |-> LegacyRecord],
                [i \in {1, 2} |-> IF i = 1 THEN LegacyRecord ELSE SecondRecord] } :
       InitStorage(d)
  /\ locks = [c \in LockNames |-> NoOwner]
  /\ InitReader
  /\ RuntimeIdle

\* a create / update / delete of the other collection up to its first await:
\* lock.acquire(this.name, ownerId) takes the lock or starts to wait
OtherWriteBegin ==
  /\ pc[OtherWriter] = "idle"
  /\ locks[OtherCollection] # OtherWriter
  /\ IF acquireGrants(locks, OtherCollection, OtherWriter)
     THEN /\ locks' = [locks EXCEPT ![OtherCollection] = OtherWriter]
          /\ UNCHANGED pc
     ELSE /\ pc' = [pc EXCEPT ![OtherWriter] = "acquire"]
          /\ UNCHANGED locks
  /\ UNCHANGED <<clocks, storage, writerLocals, res>>

\* the finally block of that write: lock.release(this.name, ownerId)
OtherWriteEnd ==
  /\ pc[OtherWriter] = "idle"
  /\ locks[OtherCollection] = OtherWriter
  /\ locks' = release(locks, OtherCollection, OtherWriter).locks
  /\ UNCHANGED <<clocks, storage, pc, writerLocals, res>>

\* ---------------------------------------------- Collection.list, whole

DEFAULT_LIMIT == 20
MAX_LIMIT == 100

\* the order of < on the string values of the model
StringOrder == <<"a", "b", "high", "low", "null">>
StringRank(v) == CHOOSE i \in 1..Len(StringOrder) : StringOrder[i] = v

\* the comparator of applySort
compare(aVal, bVal, order) ==
  IF aVal = bVal THEN 0
  ELSE IF aVal = ABSENT \/ aVal = NULL THEN 1
  ELSE IF bVal = ABSENT \/ bVal = NULL THEN -1
  ELSE LET comparison == IF StringRank(aVal) < StringRank(bVal) THEN -1 ELSE 1
       IN IF order = "asc" THEN comparison ELSE -comparison

\* Array.prototype.sort is stable: a record goes before the first record
\* already placed that it compares below
insertSorted(sorted, r, sortBy, order) ==
  LET after == { i \in 1..Len(sorted) : compare(r[sortBy], sorted[i][sortBy], order) < 0 }
      at == IF after = {} THEN Len(sorted) + 1
            ELSE CHOOSE i \in after : \A j \in after : i <= j
  IN SubSeq(sorted, 1, at - 1) \o <<r>> \o SubSeq(sorted, at, Len(sorted))

\* Collection.applySort
RECURSIVE applySort(_, _, _)
applySort(records, sortBy, order) ==
  IF records = <<>> THEN <<>>
  ELSE insertSorted(applySort(SubSeq(records, 1, Len(records) - 1), sortBy, order),
                    records[Len(records)], sortBy, order)

\* Array.prototype.slice(start, end) for start, end >= 0
slice(s, start, end) ==
  SubSeq(s, start + 1, IF end < Len(s) THEN end ELSE Len(s))

\* Collection.list(options) on a collection no write changes meanwhile
list(d, idx, options) ==
  LET requested == IF options.limit.given THEN options.limit.n ELSE DEFAULT_LIMIT
      limit == IF requested < MAX_LIMIT THEN requested ELSE MAX_LIMIT
      offset == IF options.offset.given THEN options.offset.n ELSE 0
      filtered == IF options.filters # NoFilters
                  THEN applyFilters(getAllRecords(d), options.filters, idx)
                  ELSE getAllRecords(d)
      total == Len(filtered)
      records == IF options.sort_by # ABSENT
                 THEN applySort(filtered, options.sort_by,
                                IF options.sort_order # ABSENT THEN options.sort_order
                                ELSE "asc")
                 ELSE filtered
  IN [kind |-> "list", data |-> slice(records, offset, offset + limit),
      total |-> total, limit |-> limit, offset |-> offset,
      has_more |-> offset + limit < total]

\* the queries of the model
QueryOptions ==
  [limit : {NotGiven, Given(0), Given(1), Given(2), Given(MAX_LIMIT + 1)},
   offset : {NotGiven, Given(1), Given(2)},
   sort_by : {ABSENT, "email", "priority", "nickname"},
   sort_order : {ABSENT, "asc", "desc"},
   filters : {NoFilters, [NoFilters EXCEPT !["priority"] = "low"],
              [NoFilters EXCEPT !["email"] = "b"]}]

\* record files a collection can hold: written before the schema change or
\* by create under the current schema, no two with one unique value
StoredShapes == {LegacyRecord, SecondRecord} \cup { buildRecord(p, 0, 0) : p \in Payloads }

StoredSets ==
  { d \in UNION { [S -> StoredShapes] : S \in SUBSET Ids } :
      \A i, j \in DOMAIN d :
        (i # j /\ d[i]["email"] \notin {ABSENT, NULL}) => d[i]["email"] # d[j]["email"] }

\* DatabaseEngine.init on a database directory holding any such files
InitList ==
  /\ \E d \in StoredSets : InitEngine([i \in DOMAIN d |-> [d[i] EXCEPT !["_id"] = i]])
  /\ InitReader
  /\ RuntimeIdle

\* Collection.list(options), no write in flight
ListCall ==
  /\ rpc = "idle"
  /\ rop = NoQuery
  /\ \E options \in QueryOptions :
       /\ rop' = [kind |-> "list", id |-> 0, options |-> options]
       /\ rres' = list(disk, indexes, options)
  /\ UNCHANGED <<rpc, rfiles, racc, seen>>

\* ------------------------------------------------- callers of resolveValue

\* property names of the model
PropertyNames == {<<"f">>, <<"v">>, <<"p">>, <<"i", "d">>}

\* str1 + "." + str2 + ...
RECURSIVE joinDots(_)
joinDots(parts) ==
  IF Len(parts) = 1 THEN parts[1]
  ELSE parts[1] \o <<".">> \o joinDots(Tail(parts))

\* the paths variable.segment...segment of "context." references
PropertyPaths == UNION { [1..n -> PropertyNames] : n \in 1..(MaxPath + 1) }

LiteralSources ==
  { Text(<<"t", "r", "u", "e">>), Text(<<"f", "a", "l", "s", "e">>),
    Text(<<"n", "u", "l", "l">>), Text(<<"4", "2">>), Text(<<" ", "0", "7", " ">>),
    Text(<<"h", "i">>), Text(<<>>), Text(<<" ">>), Text(<<"i", "n", "p", "u", "t">>),
    Text(<<"u", "s", "e", "r">>), Text(<<"4", "2", "f">>), Text(<<"v", ".", "p">>),
    Num(42), Bool(TRUE), Null, Undefined }

Sources ==
  { Text(INPUT_PREFIX \o k) : k \in PropertyNames \cup {<<"v", ".", "p">>} }
    \cup { Text(CONTEXT_PREFIX \o joinDots(path)) : path \in PropertyPaths }
    \cup { Text(USER_PREFIX \o k) : k \in PropertyNames }
    \cup LiteralSources

\* The execution contexts of the model: an input with a plain and a dotted
\* key; variables holding an object with a nested object and a null, a
\* number, and a string; a caller or none.
Contexts ==
  [input : { Obj([k \in {<<"f">>, <<"v", ".", "p">>} |-> IF k = <<"f">> THEN Text(<<"h", "i">>) ELSE Num(5)]),
             Obj(<<>>) },
   vars : { Obj([k \in {<<"v">>, <<"f">>, <<"p">>} |->
                   IF k = <<"v">>
                   THEN Obj([j \in {<<"p">>, <<"f">>} |->
                               IF j = <<"p">> THEN Obj([i \in {<<"f">>} |-> Num(42)])
                               ELSE Null])
                   ELSE IF k = <<"f">> THEN Num(7)
                   ELSE Text(<<"h", "i">>)]),
            Obj(<<>>) },
   user : { Obj([k \in {<<"i", "d">>} |-> Text(<<"u", "1">>)]), Undefined }]

\* A step executor is about to call resolveValue(source, context).
InitResolve ==
  /\ InitEngine([i \in {} |-> NoRec])
  /\ InitReader
  /\ WorkflowIdle /\ RulesIdle /\ ToolIdle /\ EngineStarted /\ LocksUncounted
  /\ IntegrationIdle
  /\ rvSource \in Sources
  /\ rvContext \in Contexts
  /\ rvResult = Undefined
  /\ rvpc = "called"

\* resolveValue returns
ResolveReturn ==
  /\ rvpc = "called"
  /\ rvResult' = resolveValue(rvSource, rvContext)
  /\ rvpc' = "returned"
  /\ UNCHANGED <<rvSource, rvContext>>

\* --------------------------------------------------------- callIntegration

\* error policies as parseErrorHandling produces them: maxRetries only on a
\* retry policy
ErrorPolicies ==
  [condition : {"404", "5xx", "error"}, action : {"fail", "ignore"}, maxRetries : {NotGiven}]
  \cup [condition : {"404", "5xx", "error"}, action : {"retry"},
         maxRetries : {NotGiven, Given(0), Given(MaxRetries)}]

\* what one executeOnce returns: a 2xx response, a response that is not ok,
\* or a network error / abort (no status)
FetchOutcomes ==
  { CallResult(TRUE, 200, ""), CallResult(FALSE, 404, "HTTP 404"),
    CallResult(FALSE, 503, "HTTP 503"), CallResult(FALSE, NoStatus, "fetch failed") }

\* A caller is about to call callIntegration(integration, actionName, params).
InitIntegration ==
  /\ InitEngine([i \in {} |-> NoRec])
  /\ InitReader
  /\ WorkflowIdle /\ RulesIdle /\ ToolIdle /\ EngineStarted /\ ResolverIdle
  /\ LocksUncounted
  /\ icall \in [integration : [baseUrl : {"https://api.example.com", ""},
                                actions : {{"send"}},
                                errorHandling : SeqsUpTo(ErrorPolicies, MaxPolicies)],
                 actionName : {"Send", "other"}]
  /\ ipc = "called"
  /\ maxAttempts = 0
  /\ attempt = 0
  /\ fetches = <<>>
  /\ iresult = NoCallResult

\* executeWithRetry at the head of its loop with loop variable n: the loop
\* ends, or executeOnce builds its request (buildUrl may throw, which rejects
\* the call) and awaits fetch
LoopHead(n, limit) ==
  /\ attempt' = n
  /\ IF n > limit
     THEN /\ iresult' = CallResult(FALSE, NoStatus, "Max retry attempts exceeded")
          /\ ipc' = "returned"
     ELSE IF buildUrlThrows(icall.integration.baseUrl)
     THEN /\ ipc' = "threw"
          /\ UNCHANGED iresult
     ELSE /\ ipc' = "fetch"
          /\ UNCHANGED iresult

\* callIntegration up to its first await: the action lookup, getMaxAttempts,
\* and the first pass of the loop
CallIntegration ==
  /\ ipc = "called"
  /\ IF findAction(icall.integration, icall.actionName) = {}
     THEN /\ iresult' = CallResult(FALSE, NoStatus, "action not found")
          /\ ipc' = "returned"
          /\ UNCHANGED <<maxAttempts, attempt>>
     ELSE /\ maxAttempts' = getMaxAttempts(icall.integration.errorHandling)
          /\ LoopHead(1, maxAttempts')
  /\ UNCHANGED <<icall, fetches>>

\* executeOnce returns: success is returned; a failure whose matching policy
\* is retry sleeps when attempts are left; an ignored failure is returned as
\* success with data null; any other failure is returned
FetchSettles ==
  /\ ipc = "fetch"
  /\ \E result \in FetchOutcomes :
       LET policy == findMatchingPolicy(icall.integration.errorHandling, result.status)
       IN /\ fetches' = Append(fetches, result)
          /\ IF result.success
             THEN iresult' = result /\ ipc' = "returned"
             ELSE IF policy.action = "retry" /\ attempt < maxAttempts
             THEN ipc' = "sleep" /\ UNCHANGED iresult
             ELSE IF policy.action = "ignore"
             THEN iresult' = CallResult(TRUE, result.status, "") /\ ipc' = "returned"
             ELSE iresult' = result /\ ipc' = "returned"
  /\ UNCHANGED <<icall, maxAttempts, attempt>>

\* the sleep before a retry ends: continue with attempt + 1
SleepEnds ==
  /\ ipc = "sleep"
  /\ LoopHead(attempt + 1, maxAttempts)
  /\ UNCHANGED <<icall, maxAttempts, fetches>>

\* ------------------------------------------------------------ environment

Tick ==
  /\ now < MaxClock
  /\ now' = now + 1
  /\ UNCHANGED <<nextId, nOps, locks, storage, pc, writerLocals, res>>

\* the setInterval callback of startIndexPersistence
PersistTimer ==
  /\ persisted' = persist(indexes, counts)
  /\ persisted' # persisted
  /\ UNCHANGED <<clocks, locks, disk, wal, indexes, counts, nUpdates, lastLogged,
                 pc, writerLocals, res>>

\* DatabaseEngine.init(schemas) called again on the running engine (the file
\* watcher does so for a schema it has not seen): every collection of
\* schemas is constructed and initialised anew, and startIndexPersistence
\* stores the handle of a new interval in persistTimer.
EngineInit ==
  /\ nInits < MaxInits
  /\ nInits' = nInits + 1
  /\ \E schemas \in SUBSET {CollectionName} :
       IF CollectionName \in schemas
       THEN /\ indexes' = buildForCollection(persisted, disk).indexes
            /\ counts' = buildForCollection(persisted, disk).counts
       ELSE UNCHANGED <<indexes, counts>>
  /\ timers' = timers \cup {nInits + 1}
  /\ persistTimer' = nInits + 1
  /\ UNCHANGED <<clocks, locks, disk, wal, persisted, nUpdates, lastLogged, pc, writerLocals, res,
                 stopped>>

\* the callback of an interval that is active
TimerFire ==
  /\ timers # {}
  /\ PersistTimer
  /\ UNCHANGED lifecycleVars

\* DatabaseEngine.shutdown: clearInterval of the stored handle, then one
\* persistAllIndexes
shutdown ==
  /\ ~stopped
  /\ stopped' = TRUE
  /\ IF persistTimer # 0
     THEN /\ timers' = timers \ {persistTimer}
          /\ persistTimer' = 0
     ELSE UNCHANGED <<timers, persistTimer>>
  /\ persisted' = persist(indexes, counts)
  /\ UNCHANGED <<clocks, locks, disk, wal, indexes, counts, nUpdates, lastLogged,
                 pc, writerLocals, res, nInits>>

\* The process stops without a final persist and is started again:
\* operations in flight are gone, the lock map is empty, and
\* DatabaseEngine.init builds the index through buildForCollection.
CrashRestart ==
  /\ locks' = [c \in {CollectionName} |-> NoOwner]
  /\ indexes' = buildForCollection(persisted, disk).indexes
  /\ counts' = buildForCollection(persisted, disk).counts
  /\ pc' = [w \in Writers |-> "idle"]
  /\ op' = [w \in Writers |-> NoOp]
  /\ deadline' = [w \in Writers |-> 0]
  /\ existing' = [w \in Writers |-> NoRec]
  /\ record' = [w \in Writers |-> NoRec]
  /\ res' = [w \in Writers |-> NoRes]
  /\ concWith' = [w \in Writers |-> {}]
  /\ \E w \in Writers : pc[w] # "idle" \/ res[w] # NoRes \/ indexes' # indexes
  /\ UNCHANGED <<clocks, disk, wal, persisted, nUpdates, lastLogged>>

\* ----------------------------------------------------------------- reader

\* the record set before the file mutation of a write still in flight
PreImageDisk(w) ==
  IF pc[w] # "index" THEN disk
  ELSE IF op[w].kind = "create"
       THEN [i \in (DOMAIN disk) \ {op[w].id} |-> disk[i]]
       ELSE [i \in (DOMAIN disk) \cup {op[w].id} |->
               IF i = op[w].id THEN existing[w] ELSE disk[i]]

QueryInFlight == rpc \in {"readdir", "reading"}

\* a writer step seen from the query in flight
ObserveWrite ==
  /\ seen' = IF QueryInFlight THEN seen \cup {disk'} ELSE seen
  /\ UNCHANGED <<rpc, rop, rfiles, racc, rres>>

\* Collection.read(id): one readFile, schema evolution, null on any error
Read ==
  /\ rpc = "idle"
  /\ nOps < MaxOps
  /\ nOps' = nOps + 1
  /\ \E id \in Ids :
       /\ rop' = [NoQuery EXCEPT !.kind = "read", !.id = id]
       /\ rres' = IF id \in DOMAIN disk
                  THEN [NoResult EXCEPT !.kind = "record",
                                        !.record = applySchemaEvolution(disk[id])]
                  ELSE [NoResult EXCEPT !.kind = "null"]
  /\ seen' = {disk} \cup { PreImageDisk(w) : w \in Writers }
  /\ UNCHANGED <<rpc, rfiles, racc>>
  /\ UNCHANGED <<now, nextId, locks, storage, pc, writerLocals, res>>

\* Collection.list(options) with filters only (no sort_by, default limit and
\* offset): the call reaches the readdir of getAllRecords.
ListStart ==
  /\ rpc = "idle"
  /\ nOps < MaxOps
  /\ nOps' = nOps + 1
  /\ \E filters \in FilterSets : rop' = [NoQuery EXCEPT !.kind = "list", !.filters = filters]
  /\ rpc' = "readdir"
  /\ rfiles' = <<>>
  /\ racc' = <<>>
  /\ rres' = NoResult
  /\ seen' = {disk} \cup { PreImageDisk(w) : w \in Writers }
  /\ UNCHANGED <<now, nextId, locks, storage, pc, writerLocals, res>>

\* getAllRecords has returned: applyFilters against the index as it is now,
\* total, and the page (all records: default limit above the record count)
ListReturn(records) ==
  /\ rres' = [NoResult EXCEPT !.kind = "list",
                              !.data = applyFilters(records, rop.filters, indexes),
                              !.total = Len(applyFilters(records, rop.filters, indexes))]
  /\ rpc' = "idle"
  /\ rfiles' = <<>>
  /\ racc' = <<>>

\* getAllRecords: readdir
ListReaddir ==
  /\ rpc = "readdir"
  /\ IF DOMAIN disk = {}
     THEN ListReturn(<<>>)
     ELSE /\ rfiles' = SetToSeq(DOMAIN disk)
          /\ rpc' = "reading"
          /\ UNCHANGED <<racc, rres>>
  /\ UNCHANGED <<rop, seen>>
  /\ UNCHANGED <<clocks, locks, storage, pc, writerLocals, res>>

\* getAllRecords: readFile of the next directory entry; a file that is gone
\* throws into the catch, which returns []
ListReadFile ==
  /\ rpc = "reading"
  /\ LET id == Head(rfiles)
     IN IF id \notin DOMAIN disk
        THEN ListReturn(<<>>)
        ELSE LET records == Append(racc, applySchemaEvolution(disk[id]))
             IN IF Tail(rfiles) = <<>>
                THEN ListReturn(records)
                ELSE /\ racc' = records
                     /\ rfiles' = Tail(rfiles)
                     /\ UNCHANGED <<rpc, rres>>
  /\ UNCHANGED <<rop, seen>>
  /\ UNCHANGED <<clocks, locks, storage, pc, writerLocals, res>>

\* ---------------------------------------------------------- executeWorkflow

\* executeWorkflow is called with a compiled workflow of n steps on an engine
\* whose collection is empty.  The steps and the compensations of the
\* workflow are drawn when the executor first reads them: a step when the
\* loop reaches it, the compensations when runCompensations is called.
InitWorkflow ==
  /\ InitEngine([i \in {} |-> NoRec])
  /\ InitReader
  /\ ServicesIdle
  /\ RulesIdle
  /\ ToolIdle
  /\ wf \in [n : 0..MaxSteps, compensations : {<<>>}]
  /\ wfpc = "running"
  /\ wpos = 1
  /\ wstep = NoStep
  /\ wsub = 0
  /\ wout = <<>>
  /\ stepResults = [k \in 1..MaxSteps |-> NoStepResult]
  /\ wresult = NoWorkflowResult
  /\ wtrace = <<>>

\* the record of the run: the step under way failed ("step"), or a sub-step
\* of it did ("parallel", "decision")
MarkFailure(trace, where) == [trace EXCEPT ![Len(trace)].failure = where]

StepCompleted_unrecorded(k, data) ==
  /\ wout' = data
  /\ wpos' = k + 1
  /\ wfpc' = "running"
  /\ wstep' = NoStep
  /\ wsub' = 0
  /\ UNCHANGED <<wf, wresult, stepResults, engineVars>>

\* executeWorkflowStep returned: stepResults.set(index, completed),
\* context[stepN] = result, on to the next step
StepCompleted(k, data) ==
  /\ stepResults' = [stepResults EXCEPT ![k] = [status |-> "completed", error |-> ""]]
  /\ wout' = data
  /\ wpos' = k + 1
  /\ wfpc' = "running"
  /\ wstep' = NoStep
  /\ wsub' = 0
  /\ UNCHANGED <<wf, wresult, engineVars>>

StepFailed_rollback(k, message) ==
  /\ stepResults' = [stepResults EXCEPT ![k] = [status |-> "failed", error |-> message]]
  /\ \E compensations \in CompensationLists :
       /\ wf' = [wf EXCEPT !.compensations = compensations]
       /\ wresult' = [returned |-> TRUE, success |-> FALSE, step |-> k, message |-> message,
                      compensationResults |-> runCompensations(compensations, k)]
  /\ wfpc' = "done"
  /\ wstep' = NoStep
  /\ wsub' = 0
  /\ wout' = <<>>
  /\ disk' = [i \in {} |-> NoRec]
  /\ UNCHANGED <<wpos, now, nextId, wal, locks, indexes, counts, persisted,
                 pc, op, deadline, existing, record, res, concWith, nUpdates, lastLogged, nOps>>

StepFailed_swallowed(k, message) ==
  /\ stepResults' = [stepResults EXCEPT ![k] = [status |-> "failed", error |-> message]]
  /\ wout' = <<>>
  /\ wpos' = k + 1
  /\ wfpc' = "running"
  /\ wstep' = NoStep
  /\ wsub' = 0
  /\ UNCHANGED <<wf, wresult, engineVars>>

\* executeWorkflowStep threw: the catch block of executeWorkflow records the
\* failure, runs the compensations and returns
StepFailed(k, message) ==
  /\ stepResults' = [stepResults EXCEPT ![k] = [status |-> "failed", error |-> message]]
  /\ \E compensations \in CompensationLists :
       /\ wf' = [wf EXCEPT !.compensations = compensations]
       /\ wresult' = [returned |-> TRUE, success |-> FALSE, step |-> k, message |-> message,
                      compensationResults |-> runCompensations(compensations, k)]
  /\ wfpc' = "done"
  /\ wstep' = NoStep
  /\ wsub' = 0
  /\ wout' = <<>>
  /\ UNCHANGED <<wpos, engineVars>>

\* the storage call of a step: Collection.create / update / delete by caller w
StorageCall(w, step) == Start(w, DbKind(step), step.id, step.data)

\* the branch a decision step takes
Branch(step) == IF step.condition THEN step.ifTrue ELSE step.ifFalse

\* sub-steps of the step that reach the storage engine
NestedSteps(step) ==
  IF step.type = "parallel" THEN step.steps
  ELSE IF step.type = "decision" THEN Branch(step).steps
  ELSE <<>>

\* the engine has ids and operations left for the writes of the step
Fits(step) ==
  LET n == Cardinality(DbOps(NestedSteps(step)))
  IN n > 0 => /\ nOps + n <= MaxOps
              /\ nextId + n - 1 <= MaxIds

\* the caller slot of sub-step j of a parallel step: calls are made in
\* sub-step order
WriterOf(steps, j) ==
  IF Cardinality({ i \in DbOps(steps) : i < j }) = 0 THEN "w1" ELSE "w2"

\* the loop of executeWorkflow takes the next step and calls
\* executeWorkflowStep, which runs up to its first await
WorkflowStepBegin ==
  /\ wfpc = "running"
  /\ wpos <= wf.n
  /\ \E step \in WorkflowSteps :
       /\ Fits(step)
       /\ IF step.type = "parallel" /\ step.steps # <<>>
          THEN /\ wfpc' = "launch"
               /\ wstep' = step
               /\ wsub' = 1
               /\ wout' = <<>>
               /\ wtrace' = Append(wtrace, [index |-> wpos, failure |-> "none"])
               /\ UNCHANGED <<wf, wpos, stepResults, wresult, engineVars>>
          ELSE IF step.type = "decision" /\ Branch(step).steps # <<>>
          THEN /\ wfpc' = "branch"
               /\ wstep' = step
               /\ wsub' = 1
               /\ wout' = <<>>
               /\ wtrace' = Append(wtrace, [index |-> wpos, failure |-> "none"])
               /\ UNCHANGED <<wf, wpos, stepResults, wresult, engineVars>>
          ELSE IF IsDbOp(step)
          THEN /\ StorageCall(FirstWriter, step)
               /\ wfpc' = "await"
               /\ wstep' = step
               /\ wtrace' = Append(wtrace, [index |-> wpos, failure |-> "none"])
               /\ UNCHANGED <<wf, wpos, wsub, wout, stepResults, wresult>>
          ELSE /\ IF SyncOutcome(step).ok
                  THEN /\ StepCompleted(wpos, <<>>)
                       /\ wtrace' = Append(wtrace, [index |-> wpos, failure |-> "none"])
                  ELSE /\ StepFailed(wpos, SyncOutcome(step).error)
                       /\ wtrace' = Append(wtrace, [index |-> wpos, failure |-> "step"])
  /\ UNCHANGED <<readerVars>>

\* the storage operation of a db_write / db_delete step has settled
WorkflowStepSettle ==
  /\ wfpc = "await"
  /\ pc[FirstWriter] = "idle"
  /\ IF StorageOutcome(res[FirstWriter]).ok
     THEN StepCompleted(wpos, <<>>) /\ UNCHANGED wtrace
     ELSE StepFailed(wpos, StorageOutcome(res[FirstWriter]).error)
          /\ wtrace' = MarkFailure(wtrace, "step")
  /\ UNCHANGED <<readerVars>>

\* case "parallel": subSteps.map(...) calls executeWorkflowStep for each
\* sub-step in turn; each call runs up to its first await
ParallelLaunch ==
  /\ wfpc = "launch"
  /\ LET sub == wstep.steps[wsub]
         w == WriterOf(wstep.steps, wsub)
     IN IF IsDbOp(sub)
        THEN /\ StorageCall(w, sub)
             /\ wout' = Append(wout, Pending(w))
        ELSE /\ wout' = Append(wout, SyncOutcome(sub))
             /\ UNCHANGED engineVars
  /\ wsub' = wsub + 1
  /\ wfpc' = IF wsub = Len(wstep.steps) THEN "par_await" ELSE "launch"
  /\ UNCHANGED <<wf, wpos, wstep, stepResults, wresult, wtrace, readerVars>>

allSettled_rejecting(outcomes) ==
  IF \E i \in 1..Len(outcomes) : ~outcomes[i].ok
  THEN Outcome(FALSE, "rejected", "")
  ELSE Outcome(TRUE, "", "")

\* Promise.allSettled never rejects
allSettled(outcomes) == Outcome(TRUE, "", "")

\* the outcomes of the sub-steps once every storage operation has settled:
\* r.status === "fulfilled" ? r.value : { error }
Settled(outcomes) ==
  [i \in 1..Len(outcomes) |->
     IF outcomes[i].by = "" THEN outcomes[i]
     ELSE [StorageOutcome(res[outcomes[i].by]) EXCEPT !.by = outcomes[i].by]]

\* case "parallel": Promise.allSettled resolves after every sub-step has
\* settled; the step returns the list of outcomes
ParallelSettle ==
  /\ wfpc = "par_await"
  /\ \A i \in 1..Len(wout) : wout[i].by # "" => pc[wout[i].by] = "idle"
  /\ IF allSettled(Settled(wout)).ok
     THEN StepCompleted(wpos, Settled(wout))
     ELSE StepFailed(wpos, allSettled(Settled(wout)).error)
  /\ wtrace' = IF \E i \in 1..Len(wout) : ~Settled(wout)[i].ok
               THEN MarkFailure(wtrace, "parallel") ELSE wtrace
  /\ UNCHANGED <<readerVars>>

\* case "decision": the sub-steps of the branch taken run one after the
\* other; sub-step j returned
BranchAdvance ==
  IF wsub = Len(Branch(wstep).steps)
  THEN StepCompleted(wpos, <<>>)
  ELSE /\ wsub' = wsub + 1
       /\ wfpc' = "branch"
       /\ UNCHANGED <<wf, wpos, wstep, wout, stepResults, wresult, engineVars>>

\* case "decision": the next sub-step of the branch is called
DecisionSubStep ==
  /\ wfpc = "branch"
  /\ LET sub == Branch(wstep).steps[wsub]
     IN IF IsDbOp(sub)
        THEN /\ StorageCall(FirstWriter, sub)
             /\ wfpc' = "branch_await"
             /\ UNCHANGED <<wf, wpos, wstep, wsub, wout, stepResults, wresult, wtrace>>
        ELSE /\ IF SyncOutcome(sub).ok
                THEN BranchAdvance /\ UNCHANGED wtrace
                ELSE StepFailed(wpos, SyncOutcome(sub).error)
                     /\ wtrace' = MarkFailure(wtrace, "decision")
  /\ UNCHANGED <<readerVars>>

\* case "decision": the storage operation of a sub-step has settled
DecisionSubStepSettle ==
  /\ wfpc = "branch_await"
  /\ pc[FirstWriter] = "idle"
  /\ IF StorageOutcome(res[FirstWriter]).ok
     THEN BranchAdvance /\ UNCHANGED wtrace
     ELSE StepFailed(wpos, StorageOutcome(res[FirstWriter]).error)
          /\ wtrace' = MarkFailure(wtrace, "decision")
  /\ UNCHANGED <<readerVars>>

\* all steps are done: { success: true, stepResults }
WorkflowReturn ==
  /\ wfpc = "running"
  /\ wpos > wf.n
  /\ wresult' = [NoWorkflowResult EXCEPT !.returned = TRUE, !.success = TRUE]
  /\ wfpc' = "done"
  /\ UNCHANGED <<wf, wpos, wstep, wsub, wout, stepResults, wtrace>>
  /\ UNCHANGED <<engineVars, readerVars>>

\* the storage operations the workflow has issued make progress while the
\* executor waits for them
WorkflowStorageStep(w) ==
  /\ wfpc \in {"await", "par_await", "branch_await"}
  /\ \/ Acquire(w)
     \/ ReadExisting(w)
     \/ CheckUnique(w)
     \/ WalAppend(w)
     \/ WriteFile(w)
     \/ UpdateIndex(w)
  /\ UNCHANGED <<workflowVars, readerVars>>

\* -------------------------------------------------------------- evaluateRules

\* the rule sets of a project: their categories in Map insertion order.  The
\* rules of a set and the conditions of a rule are drawn when the loops of
\* evaluateRules and evaluateRule reach them.
RuleSetLists == SeqsUpTo(Categories, MaxRuleSets)

\* entry of evaluateRules: the sort has run, the loops start
RulesEntered ==
  /\ esorted = sortRuleSets(ruleSets)
  /\ epc = "loop"
  /\ eset = 1
  /\ erule = 1
  /\ cconds = <<>>
  /\ eresult = NoRuleResult
  /\ elast = NoRule

\* evaluateRules is called with the rule sets and a context, on an engine
\* whose collection holds one record
InitRules ==
  /\ InitEngine([i \in {1} |-> LegacyRecord])
  /\ InitReader
  /\ ServicesIdle
  /\ WorkflowIdle
  /\ ToolIdle
  /\ ruleSets \in RuleSetLists
  /\ ctx \in [toolName : {ToolName}, input : Payloads, user : Users]
  /\ RulesEntered

\* the rule set the outer loop is at (position in Map insertion order)
CurrentSet == esorted[eset]

\* the rule under way ended with the verdict
Verdict(reached, verdict) == [reached EXCEPT !.verdict = verdict]

\* for (const rule of ruleSet.rules): the next rule of the set; one that does
\* not apply to the tool is skipped, one that applies goes to evaluateRule
RuleBegin ==
  /\ epc = "loop"
  /\ eset <= Len(ruleSets)
  /\ erule <= MaxRules
  /\ \E appliesTo \in AppliesTo :
       IF ruleApplies(appliesTo, ctx.toolName)
       THEN /\ epc' = "rule"
            /\ elast' = [set |-> CurrentSet, rule |-> erule, verdict |-> "evaluating"]
            /\ UNCHANGED erule
       ELSE /\ epc' = "loop"
            /\ UNCHANGED elast
            /\ erule' = erule + 1
  /\ cconds' = <<>>
  /\ UNCHANGED <<ruleSets, ctx, esorted, eset, eresult>>

\* evaluateRule: the next condition of the rule; a condition that does not
\* pass makes the rule's onFailure the violation evaluateRules returns, a
\* condition whose evaluation throws rejects evaluateRules
ConditionEvaluate ==
  /\ epc = "rule"
  /\ Len(cconds) < MaxConds
  /\ \E condition \in RuleConditions :
       LET passes == evaluateCondition(condition, ctx, disk, indexes)
       IN /\ cconds' = Append(cconds, passes)
          /\ IF passes = "true"
             THEN UNCHANGED <<epc, eresult, elast>>
             ELSE IF passes = "false"
             THEN /\ epc' = "done"
                  /\ eresult' = [kind |-> "violation", set |-> CurrentSet, rule |-> erule]
                  /\ elast' = Verdict(elast, "fail")
             ELSE /\ epc' = "done"
                  /\ eresult' = [kind |-> "throw", set |-> CurrentSet, rule |-> erule]
                  /\ elast' = Verdict(elast, "throw")
  /\ UNCHANGED <<ruleSets, ctx, esorted, eset, erule>>

\* evaluateRule: the conditions are exhausted, the rule passes (returns null)
RulePasses ==
  /\ epc = "rule"
  /\ epc' = "loop"
  /\ erule' = erule + 1
  /\ elast' = Verdict(elast, "pass")
  /\ cconds' = <<>>
  /\ UNCHANGED <<ruleSets, ctx, esorted, eset, eresult>>

\* the rules of the set are exhausted: on to the next set
RuleSetEnd ==
  /\ epc = "loop"
  /\ eset <= Len(ruleSets)
  /\ eset' = eset + 1
  /\ erule' = 1
  /\ UNCHANGED <<ruleSets, ctx, esorted, epc, cconds, eresult, elast>>

\* the rule sets are exhausted: return null
RulesReturnNull ==
  /\ epc = "loop"
  /\ eset > Len(ruleSets)
  /\ epc' = "done"
  /\ eresult' = [kind |-> "null", set |-> 0, rule |-> 0]
  /\ UNCHANGED <<ruleSets, ctx, esorted, eset, erule, cconds, elast>>

\* ------------------------------------------------ tool handler, executeAction

\* entry of executeAction: the loop starts at i = 0
ActionEntered ==
  /\ apc = "loop"
  /\ ppos = 0
  /\ astep = NoPlanStep
  /\ aresult = NoActionResult
  /\ atrace = <<>>
  /\ cvars = NoVars
  /\ lastResultVar = ABSENT
  /\ adata = NoResultData

ActionIdle ==
  /\ apc = "idle"
  /\ ppos = 0
  /\ astep = NoPlanStep
  /\ aresult = NoActionResult
  /\ atrace = <<>>
  /\ cvars = NoVars
  /\ lastResultVar = ABSENT
  /\ adata = NoResultData

\* the rule sets of the projects whose tools are called
ToolRuleSetLists == SeqsUpTo({"validation", "custom"}, MaxRuleSets)

\* A client calls the tool of an action whose plan has n steps, in a project
\* with the rule sets, on an engine whose collection holds one record.  The
\* handler calls evaluateRules when the project has rule sets, executeAction
\* otherwise.  The steps of the plan are drawn when the loop reaches them.
InitTool ==
  /\ InitEngine([i \in {1} |-> LegacyRecord])
  /\ InitReader
  /\ ServicesIdle
  /\ WorkflowIdle
  /\ ruleSets \in ToolRuleSetLists
  /\ ctx \in [toolName : {ToolName}, input : Payloads, user : {NoUser}]
  /\ plan \in [n : 0..MaxPlanSteps]
  /\ tresponse = NoResponse
  /\ IF Len(ruleSets) > 0
     THEN /\ tpc = "rules"
          /\ RulesEntered
          /\ ActionIdle
     ELSE /\ tpc = "plan"
          /\ esorted = <<>>
          /\ epc = "idle"
          /\ eset = 0
          /\ erule = 0
          /\ cconds = <<>>
          /\ eresult = NoRuleResult
          /\ elast = NoRule
          /\ ActionEntered

\* the step threw: the catch block returns the failure
StepThrew(i, err) ==
  /\ aresult' = caught(i, err)
  /\ apc' = IF caught(i, err).returned THEN "done" ELSE "threw"
  /\ atrace' = Append(atrace, [index |-> i, thrown |-> err.thrown, code |-> err.code,
                               message |-> err.message, resultVar |-> ABSENT])
  /\ astep' = NoPlanStep
  /\ UNCHANGED <<ppos, cvars, lastResultVar, adata>>

\* the step returned resultVar after writing value to it (undefined: the
\* step wrote no variable): if (resultVar) lastResultVar = resultVar; i++
StepReturned(i, resultVar, value) ==
  /\ atrace' = Append(atrace, [index |-> i, thrown |-> "none", code |-> "", message |-> "",
                               resultVar |-> resultVar])
  /\ cvars' = IF resultVar # ABSENT THEN [cvars EXCEPT ![resultVar] = value] ELSE cvars
  /\ lastResultVar' = IF resultVar # ABSENT THEN resultVar ELSE lastResultVar
  /\ ppos' = i + 1
  /\ apc' = "loop"
  /\ astep' = NoPlanStep
  /\ UNCHANGED <<aresult, adata>>

\* for (let i = 0; ...): executeStep(plan.steps[i]) up to its first await
ActionStepBegin ==
  /\ tpc = "plan"
  /\ apc = "loop"
  /\ ppos < plan.n
  /\ \E step \in PlanSteps :
       IF executeStep(step, ctx.input).thrown # "none"
       THEN StepThrew(ppos, executeStep(step, ctx.input)) /\ UNCHANGED engineVars
       ELSE IF WritesStorage(step)
       THEN /\ Start(FirstWriter, PlanDbKind(step), step.id, ctx.input)
            /\ apc' = "await"
            /\ astep' = step
            /\ UNCHANGED <<ppos, aresult, atrace, cvars, lastResultVar, adata>>
       ELSE StepReturned(ppos, stepResultVar(step), readValue(disk))
            /\ UNCHANGED engineVars
  /\ UNCHANGED <<tpc, plan, tresponse>>

\* the storage call of the step has settled
ActionStepSettle ==
  /\ tpc = "plan"
  /\ apc = "await"
  /\ pc[FirstWriter] = "idle"
  /\ IF afterStorage(astep, res[FirstWriter]).thrown # "none"
     THEN StepThrew(ppos, afterStorage(astep, res[FirstWriter]))
     ELSE StepReturned(ppos, stepResultVar(astep), writtenValue(res[FirstWriter]))
  /\ UNCHANGED <<tpc, plan, tresponse, engineVars>>

\* the loop is over: { success: true, data }
ActionReturn ==
  /\ tpc = "plan"
  /\ apc = "loop"
  /\ ppos >= plan.n
  /\ aresult' = [NoActionResult EXCEPT !.returned = TRUE, !.success = TRUE]
  /\ adata' = resultData(cvars, lastResultVar)
  /\ apc' = "done"
  /\ UNCHANGED <<tpc, plan, ppos, astep, atrace, cvars, lastResultVar, tresponse,
                 engineVars>>

\* the storage operation the plan has issued makes progress
ActionStorageStep ==
  /\ apc = "await"
  /\ \/ ReadExisting(FirstWriter)
     \/ CheckUnique(FirstWriter)
     \/ WalAppend(FirstWriter)
     \/ WriteFile(FirstWriter)
     \/ UpdateIndex(FirstWriter)
  /\ UNCHANGED toolVars

ToolRulesReturned_ignored ==
  /\ tpc = "rules"
  /\ epc = "done"
  /\ tpc' = "plan"
  /\ apc' = "loop"
  /\ epc' = "returned"
  /\ eset' = 0
  /\ erule' = 0
  /\ cconds' = <<>>
  /\ elast' = NoRule
  /\ UNCHANGED <<ruleSets, ctx, esorted, eresult, plan, ppos, astep, aresult, atrace,
                 cvars, lastResultVar, adata, tresponse, engineVars>>

\* the handler after await evaluateRules: a violation is returned as the
\* error of the call, a rejection lands in the handler's catch, null goes on
\* to executeAction
ToolRulesReturned ==
  /\ tpc = "rules"
  /\ epc = "done"
  /\ IF eresult.kind = "violation"
     THEN /\ tresponse' = [kind |-> "error", source |-> "rule", code |-> "",
                           set |-> eresult.set, rule |-> eresult.rule]
          /\ tpc' = "done"
          /\ UNCHANGED <<apc>>
     ELSE IF eresult.kind = "throw"
     THEN /\ tresponse' = [NoResponse EXCEPT !.kind = "error", !.source = "catch",
                                             !.code = "internal_error"]
          /\ tpc' = "done"
          /\ UNCHANGED <<apc>>
     ELSE /\ tpc' = "plan"
          /\ apc' = "loop"
          /\ UNCHANGED tresponse
  /\ epc' = "returned"
  /\ eset' = 0
  /\ erule' = 0
  /\ cconds' = <<>>
  /\ elast' = NoRule
  /\ UNCHANGED <<ruleSets, ctx, esorted, eresult, plan, ppos, astep, aresult, atrace,
                 cvars, lastResultVar, adata, engineVars>>

\* the handler after await executeAction: the error of a failed result, or
\* the data
ToolPlanReturned ==
  /\ tpc = "plan"
  /\ apc = "done"
  /\ tresponse' = IF aresult.success THEN [NoResponse EXCEPT !.kind = "ok"]
                  ELSE [NoResponse EXCEPT !.kind = "error", !.source = "step",
                                          !.code = aresult.code]
  /\ tpc' = "done"
  /\ UNCHANGED <<apc, plan, ppos, astep, aresult, atrace, cvars, lastResultVar, adata,
                 engineVars, ruleVars>>

WriterStep(w) ==
  \/ StartCreate(w)
  \/ StartUpdate(w)
  \/ StartDelete(w)
  \/ ReadExisting(w)
  \/ CheckUnique(w)
  \/ WalAppend(w)
  \/ WriteFile(w)
  \/ UpdateIndex(w)

\* Concurrent callers of one running engine whose file system does not fail.
Next ==
  \/ \E w \in Writers : WriterStep(w) /\ UNCHANGED <<readerVars, runtimeVars>>
  \/ \E w \in Writers : Acquire(w) /\ UNCHANGED <<readerVars, runtimeVars>>
  \/ \E w \in Writers : AcquireTimeout(w) /\ UNCHANGED <<readerVars, runtimeVars>>
  \/ Tick /\ UNCHANGED <<readerVars, runtimeVars>>

Spec == Init /\ [][Next]_vars

\* One caller, file-system errors, and process stops and restarts of an engine
\* whose persistence timer has not fired.
NextCrash ==
  \/ WriterStep(FirstWriter) /\ UNCHANGED <<readerVars, runtimeVars>>
  \/ IoFailure(FirstWriter) /\ UNCHANGED <<readerVars, runtimeVars>>
  \/ Tick /\ UNCHANGED <<readerVars, runtimeVars>>
  \/ CrashRestart /\ UNCHANGED <<readerVars, runtimeVars>>

SpecCrash == Init /\ [][NextCrash]_vars

\* One caller, the persistence timer, file-system errors, and process stops
\* and restarts.
NextRestart ==
  \/ WriterStep(FirstWriter) /\ UNCHANGED <<readerVars, runtimeVars>>
  \/ IoFailure(FirstWriter) /\ UNCHANGED <<readerVars, runtimeVars>>
  \/ Tick /\ UNCHANGED <<readerVars, runtimeVars>>
  \/ PersistTimer /\ UNCHANGED <<readerVars, runtimeVars>>
  \/ CrashRestart /\ UNCHANGED <<readerVars, runtimeVars>>

SpecRestart == Init /\ [][NextRestart]_vars

\* Concurrent callers of an engine whose file system may fail.  The collection
\* holds one record with email "b", and every create and update carries the
\* same payload with that email: a create collides while the record exists
\* and succeeds once it is deleted.  Every await of a write settles (the I/O
\* completes or rejects, the sleep of the polling loop ends), so a write that
\* can take a step eventually takes one.
InitWrites ==
  /\ InitEngine([i \in {1} |-> LegacyRecord])
  /\ InitReader
  /\ RuntimeIdle

StartWrite(w) ==
  \/ Start(w, "create", 0, [email |-> "b", priority |-> ABSENT, owner |-> "b"])
  \/ \E id \in KnownIds :
       Start(w, "update", id, [email |-> "b", priority |-> ABSENT, owner |-> "b"])
  \/ StartDelete(w)

WriteProgress(w) ==
  /\ \/ ReadExisting(w)
     \/ CheckUnique(w)
     \/ WalAppend(w)
     \/ WriteFile(w)
     \/ UpdateIndex(w)
     \/ IoFailure(w)
     \/ Acquire(w)
     \/ AcquireTimeout(w)
  /\ UNCHANGED <<readerVars, runtimeVars>>

NextWrites ==
  \/ \E w \in Writers : StartWrite(w) /\ UNCHANGED <<readerVars, runtimeVars>>
  \/ \E w \in Writers : ReadExisting(w) /\ UNCHANGED <<readerVars, runtimeVars>>
  \/ \E w \in Writers : CheckUnique(w) /\ UNCHANGED <<readerVars, runtimeVars>>
  \/ \E w \in Writers : WalAppend(w) /\ UNCHANGED <<readerVars, runtimeVars>>
  \/ \E w \in Writers : WriteFile(w) /\ UNCHANGED <<readerVars, runtimeVars>>
  \/ \E w \in Writers : UpdateIndex(w) /\ UNCHANGED <<readerVars, runtimeVars>>
  \/ \E w \in Writers : IoFailure(w) /\ UNCHANGED <<readerVars, runtimeVars>>
  \/ \E w \in Writers : Acquire(w) /\ UNCHANGED <<readerVars, runtimeVars>>
  \/ \E w \in Writers : AcquireTimeout(w) /\ UNCHANGED <<readerVars, runtimeVars>>
  \/ Tick /\ UNCHANGED <<readerVars, runtimeVars>>

SpecWrites ==
  InitWrites /\ [][NextWrites]_vars /\ \A w \in Writers : WF_vars(WriteProgress(w))

\* Callers of DatabaseEngine who name known and unknown collections and
\* present and absent record ids; the calls on the known collection do not
\* overlap.
NextEngine ==
  \/ WriterStep(FirstWriter) /\ UNCHANGED <<readerVars, runtimeVars>>
  \/ \E w \in Writers : CallUnknown(w) /\ UNCHANGED <<readerVars, runtimeVars>>
  \/ Tick /\ UNCHANGED <<readerVars, runtimeVars>>

SpecEngine == Init /\ [][NextEngine]_vars

lockFrame == <<readerVars, workflowVars, ruleVars, toolVars, lifecycleVars, resolverVars,
               integrationVars>>

\* Two owners calling acquire and release of one CollectionLock.
NextLock ==
  \/ \E w \in Writers, c \in LockNames : LockAcquire(w, c) /\ UNCHANGED lockFrame
  \/ \E w \in Writers : LockPoll(w) /\ UNCHANGED lockFrame
  \/ \E w \in Writers : LockTimeout(w) /\ UNCHANGED lockFrame
  \/ \E w \in Writers, c \in LockNames : LockRelease(w, c) /\ UNCHANGED lockFrame
  \/ Tick /\ UNCHANGED <<lockFrame, lockHistoryVars>>

SpecLock == InitLock /\ [][NextLock]_vars

\* One writing and one reading caller of a collection, and a writer of
\* another collection of the same engine.
NextShared ==
  \/ WriterStep(FirstWriter) /\ ObserveWrite /\ UNCHANGED runtimeVars
  \/ OtherWriteBegin /\ UNCHANGED <<readerVars, runtimeVars>>
  \/ OtherWriteEnd /\ UNCHANGED <<readerVars, runtimeVars>>
  \/ Read /\ UNCHANGED runtimeVars
  \/ ListStart /\ UNCHANGED runtimeVars
  \/ ListReaddir /\ UNCHANGED runtimeVars
  \/ ListReadFile /\ UNCHANGED runtimeVars

SpecShared == InitShared /\ [][NextShared]_vars

\* One list call on a collection at rest.
NextList == ListCall /\ UNCHANGED <<engineVars, runtimeVars>>

SpecList == InitList /\ [][NextList]_vars

\* One caller, repeated init, the persistence intervals and shutdown.
NextLifecycle ==
  \/ WriterStep(FirstWriter) /\ UNCHANGED <<readerVars, runtimeVars>>
  \/ EngineInit /\ UNCHANGED <<readerVars, workflowVars, ruleVars, toolVars, otherVars>>
  \/ TimerFire /\ UNCHANGED <<readerVars, workflowVars, ruleVars, toolVars, otherVars>>
  \/ shutdown /\ UNCHANGED <<readerVars, workflowVars, ruleVars, toolVars, otherVars>>

SpecLifecycle == Init /\ [][NextLifecycle]_vars

integrationFrame == <<engineVars, readerVars, workflowVars, ruleVars, toolVars,
                      lifecycleVars, resolverVars, lockHistoryVars>>

\* One call of resolveValue.
NextResolve ==
  ResolveReturn /\ UNCHANGED <<engineVars, readerVars, workflowVars, ruleVars, toolVars,
                                lifecycleVars, lockHistoryVars, integrationVars>>

SpecResolve == InitResolve /\ [][NextResolve]_vars

\* One call of callIntegration.  fetch settles (executeOnce aborts it after
\* 10 s) and the sleep before a retry ends, so the call takes its next step.
NextIntegration ==
  \/ CallIntegration /\ UNCHANGED integrationFrame
  \/ FetchSettles /\ UNCHANGED integrationFrame
  \/ SleepEnds /\ UNCHANGED integrationFrame

SpecIntegration == InitIntegration /\ [][NextIntegration]_vars /\ WF_vars(NextIntegration)

\* One writing caller and one reading caller of one running engine.
NextRead ==
  \/ WriterStep(FirstWriter) /\ ObserveWrite /\ UNCHANGED runtimeVars
  \/ Read /\ UNCHANGED runtimeVars
  \/ ListStart /\ UNCHANGED runtimeVars
  \/ ListReaddir /\ UNCHANGED runtimeVars
  \/ ListReadFile /\ UNCHANGED runtimeVars

SpecRead == Init /\ [][NextRead]_vars

\* One run of executeWorkflow on one running engine.
NextWorkflow ==
  \/ WorkflowStepBegin /\ UNCHANGED <<ruleVars, toolVars, lifecycleVars, otherVars>>
  \/ WorkflowStepSettle /\ UNCHANGED <<ruleVars, toolVars, lifecycleVars, otherVars>>
  \/ ParallelLaunch /\ UNCHANGED <<ruleVars, toolVars, lifecycleVars, otherVars>>
  \/ ParallelSettle /\ UNCHANGED <<ruleVars, toolVars, lifecycleVars, otherVars>>
  \/ DecisionSubStep /\ UNCHANGED <<ruleVars, toolVars, lifecycleVars, otherVars>>
  \/ DecisionSubStepSettle /\ UNCHANGED <<ruleVars, toolVars, lifecycleVars, otherVars>>
  \/ WorkflowReturn /\ UNCHANGED <<ruleVars, toolVars, lifecycleVars, otherVars>>
  \/ \E w \in Writers : WorkflowStorageStep(w) /\ UNCHANGED <<ruleVars, toolVars, lifecycleVars, otherVars>>

SpecWorkflow == InitWorkflow /\ [][NextWorkflow]_vars

\* One call of evaluateRules on a quiet engine.
NextRules ==
  \/ RuleBegin /\ UNCHANGED <<engineVars, readerVars, workflowVars, toolVars, lifecycleVars, otherVars>>
  \/ ConditionEvaluate /\ UNCHANGED <<engineVars, readerVars, workflowVars, toolVars, lifecycleVars, otherVars>>
  \/ RulePasses /\ UNCHANGED <<engineVars, readerVars, workflowVars, toolVars, lifecycleVars, otherVars>>
  \/ RuleSetEnd /\ UNCHANGED <<engineVars, readerVars, workflowVars, toolVars, lifecycleVars, otherVars>>
  \/ RulesReturnNull /\ UNCHANGED <<engineVars, readerVars, workflowVars, toolVars, lifecycleVars, otherVars>>

SpecRules == InitRules /\ [][NextRules]_vars

\* One tool call on one running engine.
NextTool ==
  \/ RuleBegin /\ UNCHANGED <<engineVars, readerVars, workflowVars, toolVars, lifecycleVars, otherVars>>
  \/ ConditionEvaluate /\ UNCHANGED <<engineVars, readerVars, workflowVars, toolVars, lifecycleVars, otherVars>>
  \/ RulePasses /\ UNCHANGED <<engineVars, readerVars, workflowVars, toolVars, lifecycleVars, otherVars>>
  \/ RuleSetEnd /\ UNCHANGED <<engineVars, readerVars, workflowVars, toolVars, lifecycleVars, otherVars>>
  \/ RulesReturnNull /\ UNCHANGED <<engineVars, readerVars, workflowVars, toolVars, lifecycleVars, otherVars>>
  \/ ToolRulesReturned /\ UNCHANGED <<readerVars, workflowVars, lifecycleVars, otherVars>>
  \/ ActionStepBegin /\ UNCHANGED <<readerVars, workflowVars, ruleVars, lifecycleVars, otherVars>>
  \/ ActionStepSettle /\ UNCHANGED <<readerVars, workflowVars, ruleVars, lifecycleVars, otherVars>>
  \/ ActionStorageStep /\ UNCHANGED <<readerVars, workflowVars, ruleVars, lifecycleVars, otherVars>>
  \/ ActionReturn /\ UNCHANGED <<readerVars, workflowVars, ruleVars, lifecycleVars, otherVars>>
  \/ ToolPlanReturned /\ UNCHANGED <<readerVars, workflowVars, lifecycleVars, otherVars>>

SpecTool == InitTool /\ [][NextTool]_vars

TypeOK ==
  /\ now \in 0..MaxClock
  /\ DOMAIN disk \subseteq Ids
  /\ \A w \in Writers : pc[w] \in {"idle", "acquire", "read", "unique", "wal", "write", "index"}

\* ------------------------------------------------------------------ claims

InCriticalSection(w) == pc[w] \in {"read", "unique", "wal", "write", "index"}

Quiescent == \A w \in Writers : pc[w] = "idle"

ConcurrentOps(w1, w2) == w1 \in concWith[w2] /\ w2 \in concWith[w1]

BothUpdated(w1, w2) ==
  /\ w1 # w2
  /\ res[w1].kind = "ok" /\ res[w1].op = "update"
  /\ res[w2].kind = "ok" /\ res[w2].op = "update"
  /\ res[w1].id = res[w2].id
  /\ ConcurrentOps(w1, w2)

\* C1: two concurrent updates of one record that both complete are
\* serialized: one is built on the record as the other wrote it, the final
\* _version is 2 above the one the first of them read, and the file holds the
\* later post-image.
C1_ConcurrentUpdatesSerialized ==
  \A w1, w2 \in Writers :
    BothUpdated(w1, w2) =>
      \E f, s \in {w1, w2} :
        /\ f # s
        /\ res[s].pre = res[f].post
        /\ res[s].post["_version"] = res[f].pre["_version"] + 2
        /\ res[s].id \in DOMAIN disk
        /\ disk[res[s].id] = res[s].post

C1_Witness == \E w1, w2 \in Writers : BothUpdated(w1, w2)

\* C2: at most one writer is inside the locked part of an operation, and
\* every writer that is at its read, uniqueness check, WAL append, file
\* mutation or index update is the owner recorded in the lock of the
\* collection.
C2_LockHeldInCriticalSection ==
  /\ Cardinality({ w \in Writers : InCriticalSection(w) }) <= 1
  /\ \A w \in Writers : InCriticalSection(w) => locks[CollectionName] = w

C2_Witness ==
  \E w1, w2 \in Writers :
    /\ pc[w1] = "write"
    /\ pc[w2] = "acquire"
    /\ locks[CollectionName] = w1

FileOperation(i) ==
  IF i \notin DOMAIN disk THEN "create"
  ELSE IF i \notin DOMAIN disk' THEN "delete"
  ELSE "update"

FileChanges(i) ==
  \/ (i \in DOMAIN disk) # (i \in DOMAIN disk')
  \/ i \in DOMAIN disk /\ i \in DOMAIN disk' /\ disk[i] # disk'[i]

\* C3: every step that writes, replaces or removes a record file finds, in the
\* WAL as it is before the step, an entry with the same operation kind,
\* collection and record id carrying the image the step installs; a process
\* stop between the two steps leaves the entry without the file mutation.
C3_WalBeforeFile ==
  [][\A i \in Ids :
       FileChanges(i) =>
         \E fn \in DOMAIN wal :
           /\ wal[fn].operation = FileOperation(i)
           /\ wal[fn].collection = CollectionName
           /\ wal[fn].record_id = i
           /\ wal[fn].new_state = (IF i \in DOMAIN disk' THEN disk'[i] ELSE NoRec)]_vars

\* a process stop between the WAL append of a create and its file write
C3_Witness ==
  /\ Quiescent
  /\ \A w \in Writers : res[w] = NoRes
  /\ \E fn \in DOMAIN wal :
       /\ wal[fn].operation = "create"
       /\ wal[fn].record_id \notin DOMAIN disk
       /\ \A g \in DOMAIN wal : wal[g].record_id = wal[fn].record_id => g = fn
  /\ \E fn \in DOMAIN wal : wal[fn].operation = "delete" /\ wal[fn].record_id \notin DOMAIN disk

UniqueFieldNames == { d.name : d \in { x \in SchemaFields : x.unique } }

\* C4: no two record files hold the same non-null value in a unique field.
C4_UniqueOnDisk ==
  \A i, j \in DOMAIN disk :
    i # j =>
      \A f \in UniqueFieldNames :
        disk[i][f] \in {ABSENT, NULL} \/ disk[i][f] # disk[j][f]

C4_Witness ==
  /\ Cardinality(DOMAIN disk) = 2
  /\ \A i \in DOMAIN disk : disk[i]["email"] \notin {ABSENT, NULL}
  /\ \E w \in Writers : res[w].code = "unique_violation"

HoldersOnDisk(f, k) ==
  { i \in DOMAIN disk : indexable(disk[i][f]) /\ Str(disk[i][f]) = k }

\* C5: with no write in flight the live index of every indexable field maps
\* each key to exactly the ids of the record files holding that value, each
\* id once.
C5_IndexMatchesDisk ==
  Quiescent =>
    /\ DOMAIN indexes = getIndexableFields
    /\ \A f \in DOMAIN indexes : \A k \in Keys :
         /\ SeqToSet(indexes[f][k]) = HoldersOnDisk(f, k)
         /\ Len(indexes[f][k]) = Cardinality(HoldersOnDisk(f, k))

CollidesOnDisk(rec, f) ==
  /\ rec[f] \notin {ABSENT, NULL}
  /\ \E i \in DOMAIN disk : disk[i][f] = rec[f]

IdIndexed(i) ==
  \E f \in DOMAIN indexes : \E k \in Keys : i \in SeqToSet(indexes[f][k])

\* C8: the uniqueness check of a create whose record collides on a unique
\* field ends the create with unique_violation naming that field and value
\* and changes no record file, WAL entry or index; a create that does not
\* collide goes on to the WAL; the id of a rejected create is in no file, no
\* WAL entry and no index.
C8_RejectedCreateWritesNothing ==
  /\ [](\A w \in Writers :
          (res[w].code = "unique_violation" /\ res[w].op = "create") =>
            /\ res[w].id \notin DOMAIN disk
            /\ \A fn \in DOMAIN wal : wal[fn].record_id # res[w].id
            /\ ~IdIndexed(res[w].id))
  /\ [][\A w \in Writers :
          (pc[w] = "unique" /\ op[w].kind = "create" /\ pc'[w] # "unique") =>
            IF \E f \in UniqueFieldNames : CollidesOnDisk(record[w], f)
            THEN /\ res'[w].kind = "error"
                 /\ res'[w].code = "unique_violation"
                 /\ res'[w].field \in UniqueFieldNames
                 /\ CollidesOnDisk(record[w], res'[w].field)
                 /\ res'[w].value = record[w][res'[w].field]
                 /\ UNCHANGED <<disk, wal, indexes, counts, persisted>>
            ELSE pc'[w] = "wal"]_vars

C8_Witness ==
  \E w \in Writers :
    /\ res[w].code = "unique_violation"
    /\ res[w].op = "create"
    /\ res[w].value = "b"
    /\ Cardinality(DOMAIN disk) = 1

\* C9: an operation whose lock acquisition timed out delivers the lock
\* timeout (busy) failure to its caller.
C9_TimeoutDeliversBusy ==
  \A w \in Writers :
    res[w].timedOut => (res[w].kind = "error" /\ res[w].code = "lock_timeout")

\* C10: the _version of every record file is one more than the number of
\* updates committed to it, and no step lowers the _updated_at of a record.
C10_VersionCountsUpdates ==
  /\ [](\A i \in DOMAIN disk : disk[i]["_version"] = nUpdates[i] + 1)
  /\ [][\A i \in (DOMAIN disk) \cap (DOMAIN disk') :
          disk'[i]["_updated_at"] >= disk[i]["_updated_at"]]_vars

C10_Witness ==
  \E i \in DOMAIN disk :
    /\ nUpdates[i] = 2
    /\ disk[i]["_version"] = 3
    /\ disk[i]["_updated_at"] > disk[i]["_created_at"]

\* what a list is to return on record set d: the exact-match conjunction
ExpectedList(d, filters) == linearFilter(getAllRecords(d), filters)

ExpectedRead(d, id) ==
  IF id \in DOMAIN d
  THEN [NoResult EXCEPT !.kind = "record", !.record = applySchemaEvolution(d[id])]
  ELSE [NoResult EXCEPT !.kind = "null"]

\* C6: a read or list during which the collection went through exactly two
\* record sets (one concurrent write) returns what one of the two holds.
C6_ReadSeesBeforeOrAfter ==
  (rpc = "idle" /\ Cardinality(seen) = 2) =>
    /\ rres.kind = "list" =>
         \E d \in seen :
           /\ SeqToSet(rres.data) = SeqToSet(ExpectedList(d, rop.filters))
           /\ rres.total = Len(ExpectedList(d, rop.filters))
    /\ rres.kind \in {"record", "null"} =>
         \E d \in seen : rres = ExpectedRead(d, rop.id)

\* C7: a list with no concurrent write returns exactly the records matching
\* every filter, and their number as total, also when a filter is served by
\* the index.
C7_IndexPathEqualsScan ==
  (rpc = "idle" /\ rres.kind = "list" /\ seen = {disk} /\ Quiescent) =>
    /\ rres.data = ExpectedList(disk, rop.filters)
    /\ rres.total = Len(ExpectedList(disk, rop.filters))

\* positions in the declaration at which a compensation for step k or a
\* catch-all stands
Applicable(declared, k) ==
  { i \in 1..Len(declared) : declared[i].forStep \in {k, CatchAll} }

\* C11: when step k of a workflow fails, the compensations reported as run are
\* exactly the declared ones whose forStep is k or the catch-all, each once
\* and in declaration order, next to the failure of step k; a compensation
\* declared for another step does not run, and a workflow that succeeds runs
\* none.
C11_CompensationsForFailedStep ==
  wresult.returned =>
    IF wresult.success
    THEN wresult.compensationResults = <<>>
    ELSE LET k == wresult.step
             declared == wf.compensations
             ran == wresult.compensationResults
         IN /\ stepResults[k].status = "failed"
            /\ wresult.message = stepResults[k].error
            /\ Len(ran) = Cardinality(Applicable(declared, k))
            /\ \A j \in 1..Len(ran) :
                 /\ ran[j].action \in Applicable(declared, k)
                 /\ ran[j].forStep = declared[ran[j].action].forStep
            /\ \A i, j \in 1..Len(ran) : i < j => ran[i].action < ran[j].action

\* step 2 failed; of the compensations declared for step 1 and for "*" only
\* the second ran
C11_Witness ==
  /\ wresult.returned
  /\ ~wresult.success
  /\ wresult.step = 2
  /\ Len(wf.compensations) = 2
  /\ wf.compensations[1].forStep = 1
  /\ wf.compensations[2].forStep = CatchAll
  /\ Len(wresult.compensationResults) = 1
  /\ wresult.compensationResults[1].action = 2

\* the steps executeWorkflow recorded with the status
StepsWith(status) == { k \in 1..MaxSteps : stepResults[k].status = status }

\* C12: a workflow run follows the saga state machine: steps are begun one at
\* a time in declared order; once a step has failed no later step is begun
\* and the result has success = false, names the failed step and holds
\* completed for every step before it, failed for it and nothing for the
\* steps after it; a run in which no step failed returns success = true with
\* every step completed.
C12_SagaStateMachine ==
  /\ \A i \in 1..Len(wtrace) : wtrace[i].index = i
  /\ Len(wtrace) <= wf.n
  /\ wstep # NoStep => wpos = Len(wtrace) /\ stepResults[wpos].status = "none"
  /\ StepsWith("failed") # {} => wresult.returned /\ ~wresult.success
  /\ wresult.returned =>
       IF wresult.success
       THEN /\ StepsWith("completed") = 1..wf.n
            /\ StepsWith("failed") = {}
            /\ Len(wtrace) = wf.n
       ELSE /\ StepsWith("completed") = 1..(wresult.step - 1)
            /\ StepsWith("failed") = {wresult.step}
            /\ Len(wtrace) = wresult.step

\* the first step wrote a record, the second failed and the run stopped there
C12_Witness ==
  /\ wresult.returned
  /\ ~wresult.success
  /\ wresult.step = 2
  /\ wf.n = 2
  /\ stepResults[1].status = "completed"
  /\ stepResults[2].status = "failed"
  /\ DOMAIN disk = {1}

\* the run reports the failure in step i: success = false, step i recorded as
\* failed and named in the error, and the compensations for it run
ReportsFailure(i) ==
  /\ ~wresult.success
  /\ wresult.step = i
  /\ stepResults[i].status = "failed"
  /\ Len(wresult.compensationResults) = Cardinality(Applicable(wf.compensations, i))

ParallelCompletes == wfpc = "par_await" /\ wfpc' # "par_await"

\* outcome o is the outcome of sub-step sub: for a sub-step that wrote, what
\* Collection.create delivered to it, with the record on disk when it
\* succeeded
OutcomeOf(sub, o) ==
  IF IsDbOp(sub)
  THEN /\ o.by \in Writers
       /\ pc[o.by] = "idle"
       /\ res[o.by].op = DbKind(sub)
       /\ o.ok <=> res[o.by].kind = "ok"
       /\ o.ok => /\ res[o.by].post["email"] = sub.data.email
                  /\ res[o.by].id \in DOMAIN disk
                  /\ disk[res[o.by].id] = res[o.by].post
       /\ ~o.ok => o.error = res[o.by].code
  ELSE o = SyncOutcome(sub)

\* C14: a parallel step starts all of its sub-steps and returns only after
\* every one has settled, with one outcome (value or error) per sub-step in
\* sub-step order; a failing sub-step neither fails the step nor removes the
\* outcomes of its siblings; sub-steps that write to the same collection each
\* write while holding the collection lock and every successful write is on
\* disk when the step returns.
C14_ParallelSettlesAll ==
  /\ [](\A w \in Writers :
          pc[w] \in {"unique", "wal", "write", "index"} =>
            /\ locks[CollectionName] = w
            /\ \A v \in Writers \ {w} : pc[v] \in {"idle", "acquire"})
  /\ [][ParallelCompletes =>
          /\ \A w \in Writers : pc[w] = "idle"
          /\ wfpc' = "running"
          /\ stepResults'[wpos].status = "completed"
          /\ Len(wout') = Len(wstep.steps)
          /\ \A i \in 1..Len(wstep.steps) : OutcomeOf(wstep.steps[i], wout'[i])
          /\ \A i, j \in DbOps(wstep.steps) : i # j => wout'[i].by # wout'[j].by]_vars

\* a parallel step returned: its first sub-step wrote a record, its second
\* failed on the unique field while the first held the lock, and both
\* outcomes are there
C14_Witness ==
  /\ wfpc = "running"
  /\ Len(wout) = 2
  /\ wout[1].ok /\ wout[1].by = "w1"
  /\ ~wout[2].ok /\ wout[2].by = "w2"
  /\ DOMAIN disk = {1}
  /\ "w1" \in concWith["w2"]

\* C15: when a workflow fails at step k, failure handling and compensation
\* change no record file, WAL entry or index entry: from the step's failure
\* on, everything the earlier steps committed stays exactly as committed.
C15_FailureHandlingWritesNothing ==
  [][wresult'.returned /\ ~wresult'.success =>
       UNCHANGED <<disk, wal, indexes, counts, persisted>>]_vars

\* step 1 created a record, step 2 failed, a compensation ran, and the record,
\* its WAL entry and its index entry are there
C15_Witness ==
  /\ wresult.returned
  /\ ~wresult.success
  /\ wresult.step = 2
  /\ Len(wresult.compensationResults) > 0
  /\ stepResults[1].status = "completed"
  /\ DOMAIN disk = {1}
  /\ wal # InitialWal([i \in {} |-> NoRec])
  /\ counts > 0

\* the band of a category when custom is a band of its own, before every
\* category that is none of the four
BandOfFive(category) ==
  IF category = "permissions" THEN 0
  ELSE IF category = "validation" THEN 1
  ELSE IF category = "rate-limits" THEN 2
  ELSE IF category = "custom" THEN 3
  ELSE 4

\* the band of a category when every category after the first three is one
\* band
BandOfFour(category) ==
  IF category = "permissions" THEN 0
  ELSE IF category = "validation" THEN 1
  ELSE IF category = "rate-limits" THEN 2
  ELSE 3

\* evaluateRules goes on to evaluate an applicable rule
RuleReached == elast' # elast /\ elast'.verdict = "evaluating"

\* rule a comes before rule b: lower band, or same band and declared earlier
InBandOrder(a, b, bandA, bandB) ==
  \/ bandA < bandB
  \/ bandA = bandB /\ a.set < b.set
  \/ a.set = b.set /\ a.rule < b.rule

\* what evaluateRules does between the rules and with their verdicts: no rule
\* is reached after one that failed; a rule passes when all of its conditions
\* evaluated to true and fails on its first condition that evaluated to
\* false; the violation returned is the one of the rule that failed; null is
\* returned exactly when the loops are over and no rule failed
FirstFailingRuleWins ==
  /\ [][RuleReached => elast.verdict \in {"none", "pass"}]_vars
  /\ [][elast.verdict = "evaluating" /\ elast'.verdict = "pass" =>
          \A i \in 1..Len(cconds) : cconds[i] = "true"]_vars
  /\ [][elast.verdict = "evaluating" /\ elast'.verdict = "fail" =>
          /\ cconds'[Len(cconds')] = "false"
          /\ \A i \in 1..Len(cconds) : cconds[i] = "true"]_vars
  /\ [](elast.verdict = "fail" <=> eresult.kind = "violation")
  /\ [](eresult.kind = "violation" =>
          eresult.set = elast.set /\ eresult.rule = elast.rule)
  /\ [](eresult.kind = "null" <=>
          /\ epc = "done"
          /\ eset > Len(ruleSets)
          /\ elast.verdict \in {"none", "pass"})

\* C16 as stated: evaluateRules evaluates the applicable rules in band order
\* permissions, validation, rate-limits, then every other category, in
\* declaration order within a band and within a rule set; it returns the
\* failure of the first rule with a failing condition and evaluates no rule
\* after it, and returns null exactly when every applicable rule passed.
C16_FourBands ==
  /\ [][RuleReached /\ elast # NoRule =>
          InBandOrder(elast, elast', BandOfFour(ruleSets[elast.set]),
                      BandOfFour(ruleSets[elast'.set]))]_vars
  /\ FirstFailingRuleWins

\* C16 amended: the band order is permissions, validation, rate-limits,
\* custom, then every other category; the rest as stated.
C16_FiveBands ==
  /\ [][RuleReached /\ elast # NoRule =>
          InBandOrder(elast, elast', BandOfFive(ruleSets[elast.set]),
                      BandOfFive(ruleSets[elast'.set]))]_vars
  /\ FirstFailingRuleWins

\* of the sets declared as audit, permissions the loop is at its second set,
\* the one declared first, and a rule of it failed and is the violation
C16_Witness ==
  /\ ruleSets = <<"audit", "permissions">>
  /\ eset = 2
  /\ elast = [set |-> 1, rule |-> 2, verdict |-> "fail"]
  /\ eresult = [kind |-> "violation", set |-> 1, rule |-> 2]

\* C17: evaluateRules completes by returning null or one violation; it never
\* raises or rejects, also while a condition queries the storage engine.
C17_NeverRaises == eresult.kind # "throw"

\* C18: when evaluateRules reports a violated rule for a tool call, the call
\* is rejected with the code and message that rule declares, and the plan of
\* the action is not run: executeAction is not entered, no step executes, and
\* no record file, WAL entry or index entry changes.
C18_ViolationRejectsBeforePlan ==
  /\ [][tpc = "rules" /\ tpc' # "rules" /\ eresult.kind = "violation" =>
          /\ tpc' = "done"
          /\ tresponse' = [kind |-> "error", source |-> "rule", code |-> "",
                           set |-> eresult.set, rule |-> eresult.rule]]_vars
  /\ [][eresult.kind = "violation" =>
          UNCHANGED <<disk, wal, indexes, counts, persisted, apc, atrace, aresult>>]_vars
  /\ [](eresult.kind = "violation" => apc = "idle" /\ atrace = <<>> /\ nOps = 0)
  /\ [](tresponse.source = "rule" => eresult.kind = "violation")

\* a call of a tool whose plan has steps was rejected with the onFailure of
\* the rule that failed; no step ran and the collection is as it was
C18_Witness ==
  /\ tpc = "done"
  /\ tresponse.kind = "error"
  /\ tresponse.source = "rule"
  /\ tresponse.set = eresult.set
  /\ plan.n > 0
  /\ atrace = <<>>
  /\ disk = [i \in {1} |-> LegacyRecord]

\* what the step at the end of the record threw
LastThrown == IF atrace = <<>> THEN "none" ELSE atrace[Len(atrace)].thrown

\* C19: executeAction runs the steps of the plan in declared order; when step
\* i throws a StepError no step after i runs and the result is success =
\* false with the code and message of that error and failedStep = i, the
\* (0-based) index of the first failing step.
C19_TypedFailureStopsAtStep ==
  /\ [](\A k \in 1..Len(atrace) :
          /\ atrace[k].index = k - 1
          /\ k < Len(atrace) => atrace[k].thrown = "none")
  /\ [](LastThrown = "typed" =>
          /\ aresult.returned
          /\ ~aresult.success
          /\ aresult.code = atrace[Len(atrace)].code
          /\ aresult.message = atrace[Len(atrace)].message
          /\ aresult.failedStep = Len(atrace) - 1)
  /\ [][LastThrown # "none" => UNCHANGED <<atrace, disk, wal>>]_vars
  /\ [](aresult.returned /\ aresult.success =>
          Len(atrace) = plan.n /\ LastThrown = "none")

\* the first step of the plan wrote a record, the second step threw a
\* StepError with the errorCode of its config, and the result names step 1
C19_Witness ==
  /\ Len(atrace) = 2
  /\ atrace[2].thrown = "typed"
  /\ atrace[2].code = "email_required"
  /\ aresult.returned
  /\ aresult.failedStep = 1
  /\ aresult.code = "email_required"
  /\ DOMAIN disk = {1, 2}

\* C20: executeAction never lets an exception propagate: a StepError is
\* reported with its own code, any other error thrown while step i runs is
\* reported as internal_error with failedStep = i; either way the result is a
\* value with success = false.
C20_NeverPropagates ==
  /\ [](apc # "threw")
  /\ [](LastThrown # "none" =>
          /\ aresult.returned
          /\ ~aresult.success
          /\ aresult.failedStep = Len(atrace) - 1
          /\ aresult.code = IF LastThrown = "typed" THEN atrace[Len(atrace)].code
                            ELSE "internal_error")
  /\ [](aresult.returned /\ ~aresult.success => LastThrown # "none")

\* the second step of the plan was a create that the engine refused for the
\* unique field; the result is internal_error at step 1
C20_Witness ==
  /\ Len(atrace) = 2
  /\ atrace[2].thrown = "other"
  /\ res[FirstWriter].kind = "error"
  /\ res[FirstWriter].op = "create"
  /\ aresult.returned
  /\ ~aresult.success
  /\ aresult.code = "internal_error"
  /\ aresult.failedStep = 1

\* positions of the steps run so far that returned a result variable
Designating == { k \in 1..Len(atrace) : atrace[k].resultVar # ABSENT }

\* the variable designated by the last step that designated one
LastDesignated == atrace[CHOOSE k \in Designating : \A j \in Designating : j <= k].resultVar

\* C21 as stated: on success the data is the context variable written by the
\* last step of the plan (nothing when that step wrote none), or the whole
\* variable context when no step designated a result variable.
C21_LastStepVariable ==
  (aresult.returned /\ aresult.success) =>
     IF Designating = {} THEN adata = [whole |-> TRUE, value |-> NoValue, vars |-> cvars]
     ELSE /\ ~adata.whole
          /\ adata.value = IF atrace[Len(atrace)].resultVar # ABSENT
                           THEN cvars[atrace[Len(atrace)].resultVar]
                           ELSE NoValue

\* C21: on success executeAction returns as data the context variable
\* designated by the last step of the plan that designated a result variable
\* (whether or not it is the plan's last step), or the whole variable context
\* when no step designated one.
C21_LastDesignatedVariable ==
  (aresult.returned /\ aresult.success) =>
     IF Designating = {} THEN adata = [whole |-> TRUE, value |-> NoValue, vars |-> cvars]
     ELSE adata = [whole |-> FALSE, value |-> cvars[LastDesignated], vars |-> NoVars]

\* a plan whose first step created a record into its result variable and
\* whose second step designated none returned that record
C21_Witness ==
  /\ aresult.returned
  /\ aresult.success
  /\ Len(atrace) = 2
  /\ atrace[1].resultVar = "saved"
  /\ atrace[2].resultVar = ABSENT
  /\ adata.value.kind = "record"
  /\ adata.value.record = disk[2]

\* C22: after the init that follows any history of completed writes and index
\* snapshots, including a process stop with no final persist, lookup on every
\* indexed field returns exactly the ids of the record files holding that
\* value (a snapshot that is not valid for the files on disk is discarded);
\* checked at every restart that finds no write in flight.
C22_InitIndexExact ==
  [][(Quiescent /\ CrashRestart) =>
       /\ DOMAIN indexes' = getIndexableFields
       /\ \A f \in getIndexableFields : \A v \in UserValues :
            indexable(v) =>
              /\ lookup(indexes', f, v).indexed
              /\ SeqToSet(lookup(indexes', f, v).ids)
                   = { i \in DOMAIN disk' : disk'[i][f] = v }]_vars

\* C23: every WAL append creates a new entry under a name no earlier entry
\* has and leaves every stored entry as it was, so each append raises the
\* number of stored entries by one.
C23_AppendCreatesNewEntry ==
  [][\A w \in Writers :
       WalAppend(w) =>
         /\ Cardinality(DOMAIN wal') = Cardinality(DOMAIN wal) + 1
         /\ \A fn \in DOMAIN wal : fn \in DOMAIN wal' /\ wal'[fn] = wal[fn]]_vars

\* C24: readAll returns every stored WAL entry in the order in which the
\* entries were appended: each append under a new name puts its entry after
\* all the entries readAll returned before it.
C24_ReadAllInAppendOrder ==
  [][\A w \in Writers :
       (/\ WalAppend(w)
        /\ WalFileName(now, op[w].kind, CollectionName, op[w].id) \notin DOMAIN wal)
       => /\ Len(readAll(wal')) = Len(readAll(wal)) + 1
          /\ \A n \in 1..Len(readAll(wal)) : readAll(wal')[n] = readAll(wal)[n]
          /\ readAll(wal')[Len(readAll(wal'))].operation = op[w].kind
          /\ readAll(wal')[Len(readAll(wal'))].record_id = op[w].id]_vars

\* C25: no caller payload sets or changes a system field or an immutable
\* field.  The record create builds has the engine's _id, _created_at,
\* _updated_at and _version whatever the payload carries; the record update
\* builds keeps _id, _created_at and every immutable field as stored (a field
\* absent from the file as the default or null it is read as), has _version
\* one above the stored one and _updated_at at the clock; and the file is
\* written with exactly the record built.
C25_PayloadCannotTouchProtectedFields ==
  [][\A w \in Writers :
       /\ (pc[w] \in {"idle", "acquire"} /\ pc'[w] = "unique") =>
            /\ op'[w].kind = "create"
            /\ record'[w]["_id"] = nextId
            /\ record'[w]["_created_at"] = now
            /\ record'[w]["_updated_at"] = now
            /\ record'[w]["_version"] = 1
       /\ (pc[w] = "read" /\ pc'[w] = "unique") =>
            LET stored == disk[op[w].id]
            IN /\ op[w].kind = "update"
               /\ record'[w]["_id"] = stored["_id"]
               /\ record'[w]["_created_at"] = stored["_created_at"]
               /\ record'[w]["_version"] = stored["_version"] + 1
               /\ record'[w]["_updated_at"] = now
               /\ \A f \in immutableFields :
                    record'[w][f] = IF stored[f] # ABSENT THEN stored[f]
                                    ELSE IF FieldDef(f).default # ABSENT
                                    THEN FieldDef(f).default
                                    ELSE NULL
       /\ (pc[w] = "write" /\ pc'[w] = "index" /\ op[w].kind # "delete") =>
            disk'[op[w].id] = record[w]]_vars

\* an update whose payload carried the four system keys and another owner
\* has been written: the file keeps its id, its creation time and its owner
C25_Witness ==
  \E w \in Writers :
    /\ pc[w] = "index"
    /\ op[w].kind = "update"
    /\ SystemFields \subseteq DOMAIN op[w].data
    /\ op[w].data["_id"] # op[w].id
    /\ op[w].data["owner"] = "a"
    /\ disk[op[w].id]["owner"] = "b"
    /\ disk[op[w].id]["_id"] = op[w].id
    /\ disk[op[w].id]["_version"] = 2
    /\ disk[op[w].id]["email"] = "a"

\* C26: a create followed immediately by a read of the returned id yields a
\* record equal to the one create returned, with _version 1 and non-null
\* timestamps.
C26_ReadReturnsWhatCreateReturned ==
  [][(/\ Read
      /\ pc[FirstWriter] = "idle"
      /\ res[FirstWriter].kind = "ok"
      /\ res[FirstWriter].op = "create"
      /\ rop'.id = res[FirstWriter].id)
     => /\ rres'.kind = "record"
        /\ rres'.record = res[FirstWriter].post
        /\ rres'.record["_version"] = 1
        /\ rres'.record["_created_at"] \in 0..MaxClock
        /\ rres'.record["_updated_at"] \in 0..MaxClock]_vars

\* the record has a value for every declared field and none for any other
\* user field
HasSchemaShape(r) ==
  /\ \A f \in UserFields : r[f] # ABSENT
  /\ \A f \in RemovedFields : r[f] = ABSENT

\* C27: every read and list returns, for each record, exactly the fields
\* declared in the current schema plus the system fields (a declared field
\* absent on disk as its default or null, a field no longer declared
\* omitted), and no step of a read or list changes a record file.
C27_ReturnsDeclaredFieldsOnly ==
  /\ [](rres.kind = "record" => HasSchemaShape(rres.record))
  /\ [](rres.kind = "list" => \A n \in 1..Len(rres.data) : HasSchemaShape(rres.data[n]))
  /\ [][(Read \/ ListStart \/ ListReaddir \/ ListReadFile) => disk' = disk]_vars

\* the operation of writer w is an update or delete of a record id that has no
\* file
AddressesAbsentRecord(w) ==
  /\ pc[w] \in {"acquire", "read"}
  /\ op[w].kind \in {"update", "delete"}
  /\ op[w].id \notin DOMAIN disk

\* C28: an operation addressed to an unknown collection fails with not_found
\* listing the known collection names, and an update or delete of an absent
\* record id reports not-found; in both cases no record file, WAL entry or
\* index entry is created, changed or removed, and the caller holds no lock
\* afterwards.
C28_NotFoundChangesNothing ==
  /\ [][\A w \in Writers :
          CallUnknown(w) =>
            /\ res'[w].kind = "error"
            /\ res'[w].code = "not_found"
            /\ res'[w].value = CollectionName
            /\ pc'[w] = "idle"
            /\ UNCHANGED <<disk, wal, indexes, counts, persisted, locks>>]_vars
  /\ [][\A w \in Writers :
          (AddressesAbsentRecord(w) /\ pc'[w] # pc[w]) =>
            /\ pc'[w] = "idle"
            /\ res'[w].kind = "not_found"
            /\ res'[w].op = op[w].kind
            /\ res'[w].id = op[w].id
            /\ UNCHANGED <<disk, wal, indexes, counts, persisted>>]_vars
  /\ [](\A w \in Writers :
          (pc[w] = "idle" /\ (res[w].kind = "not_found" \/ res[w].code = "not_found"))
            => locks[CollectionName] # w)

\* an update of a record id without file has returned null and a delete on
\* a collection the engine does not know has failed with not_found; the
\* record file, the log and the index are as they were at start-up and the
\* lock is free
C28_Witness ==
  /\ res[FirstWriter].kind = "not_found"
  /\ res[FirstWriter].op = "update"
  /\ res[FirstWriter].id = 2
  /\ res["w2"].kind = "error"
  /\ res["w2"].code = "not_found"
  /\ res["w2"].op = "delete"
  /\ disk = [i \in {1} |-> LegacyRecord]
  /\ wal = InitialWal(disk)
  /\ indexes = fullRebuild(disk)
  /\ locks[CollectionName] = NoOwner

\* C29: release on a collection that is not locked changes nothing, release
\* by an owner other than the holder fails and leaves the lock with its
\* holder, and only a release by the holder frees the lock.
C29_OnlyTheHolderReleases ==
  /\ [][\A w \in Writers, c \in LockNames :
          LockRelease(w, c) =>
            /\ locks[c] = NoOwner => (locks' = locks /\ res'[w].kind = "ok")
            /\ locks[c] \notin {NoOwner, w} => (locks' = locks /\ res'[w].kind = "error")
            /\ locks[c] = w =>
                 (locks' = [locks EXCEPT ![c] = NoOwner] /\ res'[w].kind = "ok")]_vars
  /\ [][\A c \in LockNames :
          (locks[c] # NoOwner /\ locks'[c] # locks[c]) =>
             /\ locks'[c] = NoOwner
             /\ LockRelease(locks[c], c)]_vars

\* after two calls, w2 has failed to release the collection w1 holds, which
\* w1 still holds, and the other collection is still free
C29_Witness ==
  /\ res["w2"].kind = "error"
  /\ res["w2"].op = "release"
  /\ res["w2"].field = CollectionName
  /\ locks[CollectionName] = "w1"
  /\ locks["users"] = NoOwner
  /\ nOps = 2
  /\ res["w1"] = NoRes

\* a step of read or list
ReaderStep == Read \/ ListStart \/ ListReaddir \/ ListReadFile

\* C30: read and list never acquire or wait for the collection lock (they
\* complete while a writer holds it), and a writer holding the lock of one
\* collection never delays a write to a different collection: no write ever
\* waits in acquire, and a write that starts takes its own collection's lock
\* at once whoever holds the other one.
C30_ReadsAndOtherCollectionsNeverWait ==
  /\ [][ReaderStep => locks' = locks]_vars
  /\ [](QueryInFlight => ENABLED (ListReaddir \/ ListReadFile))
  /\ []((rpc = "idle" /\ nOps < MaxOps) => (ENABLED Read /\ ENABLED ListStart))
  /\ [](\A w \in Writers : pc[w] # "acquire")
  /\ [][(pc[FirstWriter] = "idle" /\ pc'[FirstWriter] # "idle") =>
          locks' = [locks EXCEPT ![CollectionName] = FirstWriter]]_vars
  /\ [][locks[OtherCollection] # locks'[OtherCollection] =>
          locks'[CollectionName] = locks[CollectionName]]_vars

\* a list has returned the record a create wrote, while that create is still
\* in its critical section and the other collection's lock is held
C30_Witness ==
  /\ locks[OtherCollection] = OtherWriter
  /\ locks[CollectionName] = FirstWriter
  /\ pc[FirstWriter] = "index"
  /\ op[FirstWriter].kind = "create"
  /\ rpc = "idle"
  /\ rres.kind = "list"
  /\ \E i \in 1..Len(rres.data) : rres.data[i]._id = op[FirstWriter].id

\* the sequences that hold every element of the sequence s exactly once
Orderings(s) ==
  { p \in [1..Len(s) -> SeqToSet(s)] : \A i, j \in 1..Len(s) : p[i] = p[j] => i = j }

\* a and b may follow each other in a result sorted by field f in the given
\* direction, null and absent values last
InOrder(a, b, f, order) ==
  \/ b[f] \in {ABSENT, NULL}
  \/ /\ a[f] \notin {ABSENT, NULL}
     /\ IF order = "desc" THEN StringRank(a[f]) >= StringRank(b[f])
        ELSE StringRank(a[f]) <= StringRank(b[f])

\* the orders in which the query may present the records matching its filters
SortedResults(d, options) ==
  IF options.sort_by = ABSENT THEN {ExpectedList(d, options.filters)}
  ELSE { p \in Orderings(ExpectedList(d, options.filters)) :
           \A i \in 1..(Len(p) - 1) :
             InOrder(p[i], p[i + 1], options.sort_by,
                     IF options.sort_order = ABSENT THEN "asc" ELSE options.sort_order) }

\* C31: list returns at most min(limit, 100) records (limit 20 and offset 0
\* when not given): the slice [offset, offset + limit) of the records that
\* match the filters, sorted with null and absent sort values last in both
\* directions; total is the number of records matching the filters and
\* has_more is true exactly when offset + limit < total.
C31_PageOfFilteredSorted ==
  (rop.kind = "list" /\ rres.kind = "list") =>
    LET options == rop.options
        requested == IF options.limit.given THEN options.limit.n ELSE 20
        limit == IF requested < 100 THEN requested ELSE 100
        offset == IF options.offset.given THEN options.offset.n ELSE 0
        total == Len(ExpectedList(disk, options.filters))
    IN /\ Len(rres.data) <= limit
       /\ \E sorted \in SortedResults(disk, options) :
            rres.data = slice(sorted, offset, offset + limit)
       /\ rres.total = total
       /\ rres.has_more = (offset + limit < total)

\* C32: once shutdown has completed no index-persistence interval of the
\* engine is active, however often init was called before, and the snapshot
\* the final pass writes is the in-memory index of that moment.
C32_ShutdownStopsEveryTimer ==
  /\ [](stopped => timers = {})
  /\ [][shutdown => persisted' = persist(indexes, counts)]_vars

\* decimal notation of n
RECURSIVE decimal(_)
decimal(n) == IF n < 10 THEN <<Digits[n + 1]>> ELSE decimal(n \div 10) \o <<Digits[(n % 10) + 1]>>

\* the nested value object.p1...pn, undefined when a segment is missing or an
\* intermediate value is not an object
RECURSIVE nested(_, _)
nested(value, path) ==
  IF path = <<>> THEN value
  ELSE IF value.t # "object" \/ Head(path) \notin DOMAIN value.o THEN Undefined
  ELSE nested(value.o[Head(path)], Tail(path))

JsValues(v) == v.t \in {"undefined", "null", "boolean", "number", "string", "object"}

\* C33: resolveValue returns a value for every reference and context and
\* changes nothing: input.f yields input[f]; context.v.p1...pn yields the
\* nested value of variable v, or undefined when a segment is missing or an
\* intermediate value is not an object; user.f yields the caller's field;
\* true, false, null and numeric strings yield the parsed literal; any other
\* string yields itself; a non-string is returned unchanged.
C33_ResolveValueByForm ==
  rvpc = "returned" =>
    /\ JsValues(rvResult)
    /\ \A f \in PropertyNames :
         rvSource = Text(INPUT_PREFIX \o f) =>
           rvResult = (IF f \in DOMAIN rvContext.input.o THEN rvContext.input.o[f]
                       ELSE Undefined)
    /\ \A path \in PropertyPaths :
         rvSource = Text(CONTEXT_PREFIX \o joinDots(path)) =>
           rvResult = nested(rvContext.vars, path)
    /\ \A f \in PropertyNames :
         rvSource = Text(USER_PREFIX \o f) =>
           rvResult = nested(rvContext.user, <<f>>)
    /\ rvSource = Text(<<"t", "r", "u", "e">>) => rvResult = Bool(TRUE)
    /\ rvSource = Text(<<"f", "a", "l", "s", "e">>) => rvResult = Bool(FALSE)
    /\ rvSource = Text(<<"n", "u", "l", "l">>) => rvResult = Null
    /\ \A n \in 0..99 : rvSource = Text(decimal(n)) => rvResult = Num(n)
    /\ rvSource = Text(<<" ", "0", "7", " ">>) => rvResult = Num(7)
    /\ rvSource \in { Text(<<"h", "i">>), Text(<<>>), Text(<<" ">>),
                      Text(<<"i", "n", "p", "u", "t">>), Text(<<"u", "s", "e", "r">>),
                      Text(<<"4", "2", "f">>), Text(<<"v", ".", "p">>) } =>
         rvResult = rvSource
    /\ rvSource.t # "string" => rvResult = rvSource

\* context.v.p.f has yielded the number two objects deep
C33_Witness ==
  /\ rvpc = "returned"
  /\ rvSource = Text(CONTEXT_PREFIX \o <<"v", ".", "p", ".", "f">>)
  /\ rvResult = Num(42)

\* C34: in executeAction a storage failure keeps its type: a db_delete or
\* db_write (update) step whose record is absent stops the plan with code
\* not_found, a db_write step refused for a unique collision stops it with
\* code unique_violation, each with failedStep the index of that step.
C34_StorageFailureKeepsItsType ==
  [][(apc = "await" /\ apc' # "await") =>
       LET r == res[FirstWriter]
           stopsWith(code) ==
             /\ aresult'.returned
             /\ ~aresult'.success
             /\ aresult'.code = code
             /\ aresult'.failedStep = ppos
       IN /\ (r.kind = "not_found" /\ r.op \in {"update", "delete"}) => stopsWith("not_found")
          /\ (r.kind = "error" /\ r.code = "unique_violation") =>
               stopsWith("unique_violation")]_vars

\* the record file of id i, the null record when there is none
DiskState(i) == IF i \in DOMAIN disk THEN disk[i] ELSE NoRec

\* record i has a WAL entry
Logged(i) == lastLogged[i] \in DOMAIN wal

\* a record image as reads return it: declared fields it lacks filled with
\* their default or null
AsRead(r) == IF r = NoRec THEN NoRec ELSE applySchemaEvolution(r)

\* C35 as stated: every record with a WAL entry is on disk exactly as the
\* new_state of its most recent entry (absent when null), or exactly as that
\* entry's previous_state while the file mutation of the entry has not taken
\* place.
C35_DiskIsLatestWalImage ==
  \A i \in Ids :
    Logged(i) =>
      \/ DiskState(i) = wal[lastLogged[i]].new_state
      \/ DiskState(i) = wal[lastLogged[i]].previous_state

\* C35, amended: every record with a WAL entry is on disk exactly as the
\* new_state of its most recent entry (absent when null) or, while the file
\* mutation of the entry has not taken place, reads as that entry's
\* previous_state (absent when null); a write that has returned has left the
\* new_state.
C35_DiskIsLatestWalImageAsRead ==
  /\ \A i \in Ids :
       Logged(i) =>
         \/ DiskState(i) = wal[lastLogged[i]].new_state
         \/ AsRead(DiskState(i)) = wal[lastLogged[i]].previous_state
  /\ \A w \in Writers :
       (pc[w] = "idle" /\ res[w].kind = "ok") =>
         /\ Logged(res[w].id)
         /\ DiskState(res[w].id) = wal[lastLogged[res[w].id]].new_state

\* the process stopped between the WAL append of an update and its file
\* write: the record, written before the schema change, reads as the
\* previous_state of its latest entry
C35_Witness ==
  /\ Quiescent
  /\ \A w \in Writers : res[w] = NoRes
  /\ \E i \in DOMAIN disk :
       /\ Logged(i)
       /\ wal[lastLogged[i]].operation = "update"
       /\ disk[i] # applySchemaEvolution(disk[i])
       /\ applySchemaEvolution(disk[i]) = wal[lastLogged[i]].previous_state
       /\ disk[i] # wal[lastLogged[i]].new_state

\* C36: under any interleaving with writes, every record a list returns
\* satisfies every filter of the query with the field values it is returned
\* with.
C36_ReturnedRecordsMatchFilters ==
  (rpc = "idle" /\ rres.kind = "list") =>
    \A n \in 1..Len(rres.data) :
      \A f \in UserFields :
        rop.filters[f] # NOFILTER => rres.data[n][f] = rop.filters[f]

\* a write of w returns to its caller in this step
Returns(w) == pc[w] # "idle" /\ pc'[w] = "idle"

\* C37: every create, update and delete leaves its collection's lock released
\* on every exit path (success, not-found, unique violation, I/O failure) and
\* terminates: once all writes in flight have returned the lock is free, and
\* the next write takes it at once, without entering the polling loop.
C37_EveryExitReleasesTheLock ==
  /\ [][\A w \in Writers : Returns(w) => locks'[CollectionName] # w]_vars
  /\ [](Quiescent => locks[CollectionName] = NoOwner)
  /\ [][\A w \in Writers :
          (Quiescent /\ pc'[w] # "idle") =>
            (pc'[w] # "acquire" /\ locks'[CollectionName] = w)]_vars
  /\ \A w \in Writers : (pc[w] # "idle") ~> (pc[w] = "idle")

\* a write has failed on an I/O error, another had returned not-found or a
\* unique violation or its record, and the lock is free
C37_Witness ==
  /\ Quiescent
  /\ locks[CollectionName] = NoOwner
  /\ \E w \in Writers : res[w].kind = "error" /\ res[w].code = "io_error"
  /\ \E w \in Writers : res[w].kind = "error" /\ res[w].code = "unique_violation"

\* C38: re-entrant acquisition is not counted.  An acquire by the owner who
\* already holds the lock returns at once and leaves the lock map as it is;
\* a single release by the holder frees the lock however many acquires of
\* that owner are unmatched; and the freed lock is granted to another owner
\* at once while acquires of the first are still unmatched.
C38_ReentryIsNotCounted ==
  /\ [][\A w \in Writers, c \in LockNames :
          (LockAcquire(w, c) /\ locks[c] = w) =>
            /\ locks' = locks
            /\ pc'[w] = "idle"
            /\ res'[w].kind = "ok"
            /\ unmatched'[w][c] = unmatched[w][c] + 1]_vars
  /\ [][\A w \in Writers, c \in LockNames :
          (LockRelease(w, c) /\ locks[c] = w) =>
            /\ locks'[c] = NoOwner
            /\ res'[w].kind = "ok"
            /\ unmatched'[w][c] = unmatched[w][c] - 1]_vars
  /\ [][\A w \in Writers, c \in LockNames :
          (LockAcquire(w, c) /\ locks[c] = NoOwner) =>
            /\ locks'[c] = w
            /\ res'[w].kind = "ok"]_vars

\* w1, holding the lock after two acquires, has released once; w2 has then
\* acquired the lock while one acquire of w1 is still unmatched
C38_Witness ==
  /\ unmatched["w1"][CollectionName] = 1
  /\ res["w1"].kind = "ok" /\ res["w1"].op = "release" /\ res["w1"].field = CollectionName
  /\ res["w2"].kind = "ok" /\ res["w2"].op = "acquire" /\ res["w2"].field = CollectionName
  /\ locks[CollectionName] = "w2"
  /\ unmatched["w2"][CollectionName] = 1

\* maxRetries of the integration's retry policy, 0 when there is none
RetryLimit(policies) ==
  LET retries == { n \in 1..Len(policies) : policies[n].action = "retry" }
  IN IF retries = {} THEN 0
     ELSE LET first == policies[CHOOSE n \in retries : \A m \in retries : n <= m]
          IN IF first.maxRetries.given THEN first.maxRetries.n ELSE 0

\* the failure is one whose matching error policy is retry
RetryableFailure(result) ==
  /\ ~result.success
  /\ findMatchingPolicy(icall.integration.errorHandling, result.status).action = "retry"

\* C39: callIntegration makes at most maxRetries + 1 attempts, returns at the
\* first successful attempt, makes a further attempt only after a failure
\* whose matching error policy is retry, and always terminates with a result
\* value.
C39_BoundedRetriesAndAResult ==
  /\ [](Len(fetches) <= RetryLimit(icall.integration.errorHandling) + 1)
  /\ [](\A n \in 1..(Len(fetches) - 1) : RetryableFailure(fetches[n]))
  /\ []((ipc = "returned" /\ fetches # <<>> /\ fetches[Len(fetches)].success) =>
          iresult = fetches[Len(fetches)])
  /\ [](ipc \in {"fetch", "sleep"} => ~iresult.returned)
  /\ [](ipc # "threw")
  /\ <>(ipc = "returned" /\ iresult.returned)

====
